---- MODULE Spec2Model ----
(***************************************************************************)
(* A model of the pfecs ECS runtime: the atomic borrow cell (cell.rs), the  *)
(* executor fetch path (system/mod.rs, system/executor.rs), the            *)
(* dispatcher's worker pool (system/dispatch.rs), the component columns    *)
(* and their registry (storage/component.rs), the join (storage/join.rs)   *)
(* and the world's entities and archetypes (world/mod.rs, archetype.rs).   *)
(*                                                                          *)
(* Every atomic operation of the code (a load, a compare_and_swap, a        *)
(* fetch_add/fetch_sub, a swap, a store, an ArrayQueue push/pop) is one     *)
(* step; threads interleave between steps.  Arithmetic on the borrow        *)
(* counter keeps its width: usize is scaled to WordBits bits.               *)
(*                                                                          *)
(* `borrow_state + 1` in try_borrow overflows when borrow_state is          *)
(* usize::MAX.  A build with overflow checks (debug) panics there, a build  *)
(* without (release) wraps to 0; `build` ranges over both.                  *)
(***************************************************************************)
EXTENDS Integers, Sequences, FiniteSets, TLC

VARIABLES
    build,      \* "debug" | "release": overflow checks and debug_assert on or off
    systems,    \* executor -> its declared Resources / Components packs
    resReg,     \* resource types registered in the ResourceStorageAllocator
    compReg,    \* component types registered in the ComponentStorageAllocator
    readers,    \* registry RwLock state: "res"/"comp" -> number of read guards
    writer,     \* registry RwLock state: "res"/"comp" -> write-locked
    borrow,     \* AtomicRefCell::borrow of every cell
    status,     \* ThreadShared::status
    parked,     \* ThreadShared::parked
    cache,      \* SystemQueue::cache contents (an executor or NoExec)
    ring,       \* SystemQueue::queue contents (ArrayQueue)
    token,      \* per worker: the thread's park token (set by unpark)
    wpc,        \* per worker: position in its code
    wloc,       \* per worker: its locals
    nthreads,   \* Dispatcher::threads.len()
    mpc,        \* the dispatcher owner's position
    mi,         \* the owner's join loop index
    world,      \* the World: archetypes, entities, component columns, next_id
    call        \* the last call made on the world or its storages, and its result

vars == <<build, systems, resReg, compReg, readers, writer, borrow, status, parked,
          cache, ring, token, wpc, wloc, nthreads, mpc, mi, world, call>>

\* the data of the world, which the threads of the dispatcher do not touch
data == <<world, call>>

-----------------------------------------------------------------------------
(* Bounds of the model *)

\* width of the borrow counter (usize), scaled down
WordBits == 3
\* number of worker threads / threads sharing a cell
NumWorkers == 2
\* guards one thread keeps alive at once in the cell harness
MaxGuards == 2

Workers == 1..NumWorkers
Modulus == 2^WordBits

-----------------------------------------------------------------------------
(* cell.rs: AtomicRefCell *)

MUTABLY_BORROWED == Modulus - 1

\* AtomicUsize::compare_and_swap(current, new): the value stored afterwards
CompareAndSwap(cur, current, new) == IF cur = current THEN new ELSE cur

\* try_borrow, the compare_and_swap(borrow_state, borrow_state + 1) of one
\* loop iteration: the counter afterwards (wrapping add of a release build)
TryBorrowStore(cur, borrow_state) ==
    CompareAndSwap(cur, borrow_state, (borrow_state + 1) % Modulus)

\* try_borrow, the branch taken on the value `old` the CAS returned
TryBorrowResult(old, borrow_state) ==
    IF old = MUTABLY_BORROWED THEN "none"
    ELSE IF old = borrow_state THEN "some"
    ELSE "retry"

\* try_borrow: `borrow_state + 1` panics in a build with overflow checks
TryBorrowOverflows(borrow_state) ==
    build = "debug" /\ borrow_state = MUTABLY_BORROWED

\* a try_borrow_mut that swaps instead of comparing
TryBorrowMutStore_Swap(cur) == IF cur = MUTABLY_BORROWED THEN cur ELSE MUTABLY_BORROWED

\* try_borrow_mut: compare_and_swap(0, MUTABLY_BORROWED)
TryBorrowMutStore(cur) == CompareAndSwap(cur, 0, MUTABLY_BORROWED)

TryBorrowMutOk(cur) == cur = 0

\* AtomicRef::drop: fetch_sub(1), wrapping
DropRefStore(cur) == (cur + Modulus - 1) % Modulus

\* AtomicRef::drop: debug_assert_ne!(old_val, MUTABLY_BORROWED)
DropRefAsserts(old) == build = "debug" /\ old = MUTABLY_BORROWED

\* AtomicRefMut::drop: swap(0)
DropMutStore(cur) == 0

\* AtomicRefMut::drop: debug_assert_eq!(old_val, MUTABLY_BORROWED)
DropMutAsserts(old) == build = "debug" /\ old # MUTABLY_BORROWED

-----------------------------------------------------------------------------
(* Vocabulary *)

NoExec == "none"
Sys == {"A", "B"}

RUNNING == 0
PARKED == 1
SHUTDOWN == 2

ResTypes == {"Clock", "Ghost"}
CompTypes == {"Pos", "Vel", "Phantom"}
Cells == {"world", "cache"} \cup ResTypes \cup CompTypes

\* the cell the harness threads share
CellUnderTest == "Clock"

Read(reg, t) == [reg |-> reg, mode |-> "R", ty |-> t]
Write(reg, t) == [reg |-> reg, mode |-> "W", ty |-> t]

\* the executor the owner hands to Dispatcher::add_executor after build
Added == "X"

AddedPack == <<Read("res", "Clock")>>

\* the Resources pack followed by the Components pack of executor s
Pack(s) == IF s = Added THEN AddedPack ELSE systems[s]

\* the length of the Resources pack of executor s
ResourcesOf(s) == Cardinality({k \in 1..Len(Pack(s)) : Pack(s)[k].reg = "res"})

StorageInUse(reg) ==
    IF reg = "res" THEN "ResourceStorageInUse" ELSE "ComponentStorageInUse"

\* a live guard: the cell it borrows and its kind
Ref(c) == <<c, "ref">>
RefMut(c) == <<c, "mut">>

\* a read lock held on a registry
ReadLock(reg) == <<reg, "rlock">>

RECURSIVE Reverse(_)
Reverse(s) == IF s = <<>> THEN <<>> ELSE Append(Reverse(Tail(s)), Head(s))

RemoveAt(s, i) == [j \in 1..(Len(s) - 1) |-> IF j < i THEN s[j] ELSE s[j + 1]]

-----------------------------------------------------------------------------
(* storage/component.rs: ComponentStorage, one column of (id, value) *)

\* entities one world creates
MaxEntities == 3
\* component values are 1..MaxValue
MaxValue == 2
\* components in one tuple handed to the world
MaxTuple == 2

EntityIds == 0..(MaxEntities - 1)
Values == 1..MaxValue

SeqContains(s, x) == \E i \in 1..Len(s) : s[i] = x

\* iter().enumerate().find(..): the first index holding x, 0 when there is none
IndexOf(s, x) ==
    IF SeqContains(s, x) THEN CHOOSE i \in 1..Len(s) :
                                 s[i] = x /\ \A j \in 1..(i - 1) : s[j] # x
    ELSE 0

\* Vec::pop
PopBack(s) == IF s = <<>> THEN s ELSE SubSeq(s, 1, Len(s) - 1)

\* ComponentStorage::new
StorageNew == [ids |-> <<>>, comps |-> <<>>]

\* ComponentStorage::len
StorageLen(st) == Len(st.comps)

\* a push that appends whether or not the id is present
StoragePush_NoCheck(st, id, t) ==
    [ids |-> Append(st.ids, id), comps |-> Append(st.comps, t)]

\* a push that overwrites the value stored for a present id
StoragePush_Replace(st, id, t) ==
    IF SeqContains(st.ids, id)
    THEN [st EXCEPT !.comps[IndexOf(st.ids, id)] = t]
    ELSE [ids |-> Append(st.ids, id), comps |-> Append(st.comps, t)]

\* ComponentStorage::push: the column afterwards
StoragePush(st, id, t) ==
    IF SeqContains(st.ids, id)
    THEN st
    ELSE [ids |-> Append(st.ids, id), comps |-> Append(st.comps, t)]

\* ComponentStorage::push: Err(t) or Ok(())
StoragePushRet(st, id, t) ==
    IF SeqContains(st.ids, id) THEN <<"Err", t>> ELSE <<"Ok">>

\* a pop that forgets the values
StoragePop_IdsOnly(st) == [ids |-> PopBack(st.ids), comps |-> st.comps]

\* ComponentStorage::pop: each Vec is popped on its own
StoragePop(st) == [ids |-> PopBack(st.ids), comps |-> PopBack(st.comps)]

StoragePopRet(st) ==
    IF st.ids # <<>> /\ st.comps # <<>>
    THEN <<"Some", st.ids[Len(st.ids)], st.comps[Len(st.comps)]>>
    ELSE IF st.ids = <<>> /\ st.comps = <<>> THEN <<"None">>
    ELSE <<"unreachable">>

\* a remove that fills the hole with the last entry (a swap-remove)
StorageRemove_Swap(st, index) ==
    IF index >= StorageLen(st)
    THEN st
    ELSE [ids |-> PopBack([st.ids EXCEPT ![index + 1] = st.ids[Len(st.ids)]]),
          comps |-> PopBack([st.comps EXCEPT ![index + 1] = st.comps[Len(st.comps)]])]

\* ComponentStorage::remove(index), index counted from 0
StorageRemove(st, index) ==
    IF index >= StorageLen(st)
    THEN st
    ELSE [ids |-> RemoveAt(st.ids, index + 1),
          comps |-> RemoveAt(st.comps, index + 1)]

StorageRemoveRet(st, index) ==
    IF index >= StorageLen(st)
    THEN <<"None">>
    ELSE <<"Some", st.ids[index + 1], st.comps[index + 1]>>

\* ComponentStorage::remove_by_id
StorageRemoveById(st, id) ==
    IF IndexOf(st.ids, id) = 0
    THEN st
    ELSE [ids |-> RemoveAt(st.ids, IndexOf(st.ids, id)),
          comps |-> RemoveAt(st.comps, IndexOf(st.ids, id))]

StorageRemoveByIdRet(st, id) ==
    IF IndexOf(st.ids, id) = 0
    THEN <<"None">>
    ELSE <<"Some", st.comps[IndexOf(st.ids, id)]>>

-----------------------------------------------------------------------------
(* storage/component.rs: ComponentStorageAllocator, type -> column *)

\* ComponentStorageAllocator::new
RegistryNew == [t \in {} |-> StorageNew]

\* a register that installs a fresh column over an existing one
Register_Reset(reg, t) ==
    [u \in DOMAIN reg \cup {t} |-> IF u = t THEN StorageNew ELSE reg[u]]

\* ComponentStorageAllocator::register / register_with: the registry afterwards
Register(reg, t) ==
    IF t \in DOMAIN reg
    THEN reg
    ELSE [u \in DOMAIN reg \cup {t} |-> IF u = t THEN StorageNew ELSE reg[u]]

\* ... and the bool it returns
RegisterRet(reg, t) == t \notin DOMAIN reg

\* a remove_components that takes the last entry of each column
RemoveComponents_Pop(reg, id) == [t \in DOMAIN reg |-> StoragePop(reg[t])]

\* ComponentStorageAllocator::remove_components: drop_fn on every column,
\* which is ComponentStorage::drop_component -> remove_by_id
RemoveComponents(reg, id) ==
    [t \in DOMAIN reg |-> StorageRemoveById(reg[t], id)]

-----------------------------------------------------------------------------
(* storage/resource.rs, resource.rs: the resource registry *)

\* a register_with that inserts nothing
ResRegister_Drop(reg, t, v) == reg

\* a register_with that replaces the value of a registered type
ResRegister_Overwrite(reg, t, v) ==
    [u \in DOMAIN reg \cup {t} |-> IF u = t THEN v ELSE reg[u]]

\* ResourceStorageAllocator::register / register_with: the registry
\* afterwards; the Occupied arm drops the new value
ResRegister(reg, t, v) ==
    IF t \in DOMAIN reg
    THEN reg
    ELSE [u \in DOMAIN reg \cup {t} |-> IF u = t THEN v ELSE reg[u]]

\* ResourceStorageAllocator::register: the bool it returns
ResRegisterRet(reg, t) == t \notin DOMAIN reg

\* ResourceStorageAllocator::get, read through the guard: cell.borrow()
\* panics on a cell whose counter is MUTABLY_BORROWED
ResGet(reg, t, counter) ==
    IF t \notin DOMAIN reg THEN <<"None">>
    ELSE IF counter = MUTABLY_BORROWED THEN <<"panic">>
    ELSE <<"Some", reg[t]>>

\* ResourceTuple::store: register each element in turn, panic on the first
\* one that was registered already
RECURSIVE ResStore(_, _)
ResStore(reg, rt) ==
    IF rt = <<>> THEN [reg |-> reg, panic |-> FALSE]
    ELSE IF ~ResRegisterRet(reg, Head(rt)[1])
         THEN [reg |-> reg, panic |-> TRUE]
         ELSE ResStore(ResRegister(reg, Head(rt)[1], Head(rt)[2]), Tail(rt))

-----------------------------------------------------------------------------
(* component.rs, archetype.rs, world/mod.rs: the World *)

\* a component tuple: a sequence of <<type, value>>
TupleTypes(ct) == {ct[i][1] : i \in 1..Len(ct)}

\* ComponentTuple::set panics on a tuple that names a type twice
TupleSetPanics(ct) == \E i, j \in 1..Len(ct) : i # j /\ ct[i][1] = ct[j][1]

\* a store that stores nothing
Store_Nothing(reg, id, ct) == [reg |-> reg, panic |-> FALSE]

\* ComponentTuple::store: get_mut_or_register::<T>().push(id, t) for each
\* element in turn; a rejected push panics and the rest is not stored
RECURSIVE Store(_, _, _)
Store(reg, id, ct) ==
    IF ct = <<>> THEN [reg |-> reg, panic |-> FALSE]
    ELSE LET t == Head(ct)[1]
             r1 == Register(reg, t)
         IN IF StoragePushRet(r1[t], id, Head(ct)[2])[1] = "Err"
            THEN [reg |-> r1, panic |-> TRUE]
            ELSE Store([r1 EXCEPT ![t] = StoragePush(r1[t], id, Head(ct)[2])],
                       id, Tail(ct))

\* World::new
WorldNew == [archetypes |-> <<>>, entities |-> <<>>,
             columns |-> RegistryNew, resources |-> [t \in {} |-> 0],
             next_id |-> 0]

\* Archetype::new
ArchetypeNew(components) == [entities |-> <<>>, components |-> components]

\* an Archetype::remove that leaves the entity where it was
ArchetypeRemove_Keep(arch, id) == arch

\* Archetype::remove: the first entry with the entity's id is taken out
ArchetypeRemove(arch, id) ==
    IF IndexOf(arch.entities, id) = 0 THEN arch
    ELSE [arch EXCEPT !.entities = RemoveAt(@, IndexOf(arch.entities, id))]

\* World::archetype_of_mut: index of the first archetype containing the
\* entity, 0 when there is none
ArchetypeOf(archetypes, id) ==
    IF \E i \in 1..Len(archetypes) : SeqContains(archetypes[i].entities, id)
    THEN CHOOSE i \in 1..Len(archetypes) :
            /\ SeqContains(archetypes[i].entities, id)
            /\ \A j \in 1..(i - 1) : ~SeqContains(archetypes[j].entities, id)
    ELSE 0

\* World::get_archetype_mut: index of the first archetype with this
\* signature, 0 when there is none
GetArchetype(archetypes, components) ==
    IF \E i \in 1..Len(archetypes) : archetypes[i].components = components
    THEN CHOOSE i \in 1..Len(archetypes) :
            /\ archetypes[i].components = components
            /\ \A j \in 1..(i - 1) : archetypes[j].components # components
    ELSE 0

\* get_archetype_mut or else create_archetype, then archetype.push(entity)
PushToArchetype(archetypes, components, id) ==
    LET k == GetArchetype(archetypes, components)
    IN IF k # 0
       THEN [archetypes EXCEPT ![k].entities = Append(@, id)]
       ELSE Append(archetypes,
                   [ArchetypeNew(components) EXCEPT !.entities = <<id>>])

\* a create_entity_impl that leaves next_id where it was
CreateEntityImpl_SameId(w, ct) ==
    LET id == w.next_id
        st == Store(w.columns, id, ct)
    IN [world |-> [w EXCEPT !.archetypes = PushToArchetype(@, TupleTypes(ct), id),
                            !.columns = st.reg,
                            !.entities = Append(@, id)],
        panic |-> st.panic]

\* World::create_entity_impl with entity = Entity::new(next_id)
CreateEntityImpl(w, ct) ==
    LET id == w.next_id
        st == Store(w.columns, id, ct)
        w1 == [w EXCEPT !.archetypes = PushToArchetype(@, TupleTypes(ct), id),
                        !.columns = st.reg]
    IN IF st.panic
       THEN [world |-> w1, panic |-> TRUE]
       ELSE [world |-> [w1 EXCEPT !.entities = Append(@, id),
                                  !.next_id = @ + 1],
             panic |-> FALSE]

\* an add_components_impl whose target signature forgets the old one
AddComponentsImpl_NewSetOnly(w, id, ct) ==
    LET k == ArchetypeOf(w.archetypes, id)
    IN IF k = 0
       THEN [world |-> w, ret |-> <<"Err", ct>>]
       ELSE LET removed == [w.archetypes EXCEPT ![k] = ArchetypeRemove(@, id)]
                st == Store(w.columns, id, ct)
                w1 == [w EXCEPT !.archetypes =
                                    PushToArchetype(removed, TupleTypes(ct), id),
                                !.columns = st.reg]
            IN [world |-> w1,
                ret |-> IF st.panic THEN <<"panic">> ELSE <<"Ok">>]

\* an add_components that stores the components before it looks for the
\* entity's archetype
AddComponentsImpl_StoreFirst(w, id, ct) ==
    LET k == ArchetypeOf(w.archetypes, id)
        st == Store(w.columns, id, ct)
    IN IF k = 0
       THEN [world |-> [w EXCEPT !.columns = st.reg], ret |-> <<"Err", ct>>]
       ELSE LET comp_set == w.archetypes[k].components \cup TupleTypes(ct)
                removed == [w.archetypes EXCEPT ![k] = ArchetypeRemove(@, id)]
            IN [world |-> [w EXCEPT !.archetypes = PushToArchetype(removed, comp_set, id),
                                    !.columns = st.reg],
                ret |-> IF st.panic THEN <<"panic">> ELSE <<"Ok">>]

\* World::add_components_impl
AddComponentsImpl(w, id, ct) ==
    LET k == ArchetypeOf(w.archetypes, id)
    IN IF k = 0
       THEN [world |-> w, ret |-> <<"Err", ct>>]
       ELSE LET old_comp_set == w.archetypes[k].components
                removed == [w.archetypes EXCEPT ![k] = ArchetypeRemove(@, id)]
                comp_set == old_comp_set \cup TupleTypes(ct)
                st == Store(w.columns, id, ct)
                w1 == [w EXCEPT !.archetypes = PushToArchetype(removed, comp_set, id),
                                !.columns = st.reg]
            IN [world |-> w1,
                ret |-> IF st.panic THEN <<"panic">> ELSE <<"Ok">>]

-----------------------------------------------------------------------------
(* storage/join.rs: intersect and JoinIter *)

\* ids.iter().flat_map(|slice| slice.iter())
RECURSIVE Flatten(_)
Flatten(slices) ==
    IF slices = <<>> THEN <<>> ELSE Head(slices) \o Flatten(Tail(slices))

InAll(slices, id) == \A k \in 1..Len(slices) : SeqContains(slices[k], id)

\* the ids pushed by the for_each: those found in every slice
RECURSIVE KeepInAll(_, _)
KeepInAll(s, slices) ==
    IF s = <<>> THEN <<>>
    ELSE IF InAll(slices, Head(s))
         THEN <<Head(s)>> \o KeepInAll(Tail(s), slices)
         ELSE KeepInAll(Tail(s), slices)

\* sort_unstable: x put in its place in an ascending sequence
RECURSIVE InsertSorted(_, _)
InsertSorted(x, s) ==
    IF s = <<>> THEN <<x>>
    ELSE IF x <= Head(s) THEN <<x>> \o s
         ELSE <<Head(s)>> \o InsertSorted(x, Tail(s))

RECURSIVE SortUnstable(_)
SortUnstable(s) ==
    IF s = <<>> THEN <<>> ELSE InsertSorted(Head(s), SortUnstable(Tail(s)))

\* Vec::dedup: consecutive repeated elements are removed
RECURSIVE Dedup(_)
Dedup(s) ==
    IF Len(s) <= 1 THEN s
    ELSE IF s[1] = s[2] THEN Dedup(Tail(s))
         ELSE <<s[1]>> \o Dedup(Tail(s))

\* an intersect that does not sort
Intersect_Unsorted(slices) == KeepInAll(Flatten(slices), slices)

\* intersect
Intersect(slices) == Dedup(SortUnstable(KeepInAll(Flatten(slices), slices)))

\* the orders in which the ids sent over the channel of par_intersect can
\* be received: the tasks of the parallel for_each run in any order
Arrivals(sent) ==
    {[i \in 1..Len(sent) |-> sent[f[i]]] : f \in Permutations(1..Len(sent))}

\* a par_intersect that does not sort what it received
ParIntersect_Unsorted(received) == Dedup(received)

\* par_intersect after the channel is drained: par_sort_unstable, dedup
ParIntersect(received) == Dedup(SortUnstable(received))

\* a channel with room for the first slice only
ChannelCapacity_First(slices) == Len(slices[1])

\* par_intersect: channel::bounded(capacity), capacity the sum of the
\* slice lengths
ChannelCapacity(slices) == Len(Flatten(slices))

\* the receiver is drained only after every task has finished: the send
\* after the capacity-th one waits for ever
SendBlocks(sends, slices) == sends > ChannelCapacity(slices)

\* a get_item that reads the first slot whatever the id
GetItem_Head(st, id) == st.comps[1]

\* StoragePriv::get_item: the value at the first index holding the id
GetItem(st, id) == st.comps[IndexOf(st.ids, id)]

\* Join::join: the iterator over the storages of the tuple
JoinNew(tuple) ==
    [ids |-> Intersect([k \in 1..Len(tuple) |-> tuple[k].ids]), current |-> 0]

\* JoinIter::next at position `current`: the tuple it yields
JoinItem(tuple, it) ==
    [k \in 1..Len(tuple) |-> GetItem(tuple[k], it.ids[it.current + 1])]

\* everything the iterator yields until next returns None
RECURSIVE JoinRest(_, _)
JoinRest(tuple, it) ==
    IF it.current < Len(it.ids)
    THEN <<[id |-> it.ids[it.current + 1], item |-> JoinItem(tuple, it)]>>
            \o JoinRest(tuple, [it EXCEPT !.current = @ + 1])
    ELSE <<>>

JoinAll(tuple) == JoinRest(tuple, JoinNew(tuple))

\* a worker's locals when it holds nothing
IdleLoc == [ex       |-> NoExec,   \* executor popped and not yet re-pushed
            ctx      |-> "-",      \* who called try_borrow
            cell     |-> "-",      \* the cell try_borrow works on
            loaded   |-> 0,        \* try_borrow's borrow_state
            held     |-> <<>>,     \* live cell guards, in acquisition order
            locks    |-> <<>>,     \* live registry read guards
            forgot   |-> <<>>,     \* read locks whose guard was forgotten
            idx      |-> 0,        \* packs elements fetched so far
            err      |-> "-",      \* result of the last executor call
            todrop   |-> <<>>,     \* guards still to drop, in drop order
            after    |-> "-",      \* where to go once todrop is empty
            panicking|-> FALSE,
            gw       |-> FALSE,    \* holds the AtomicRef of the world
            gc       |-> FALSE,    \* holds the AtomicRefMut of the cache
            op       |-> "-",      \* harness: last call made
            res      |-> "-"]      \* harness: what it returned

-----------------------------------------------------------------------------
(* Guards going out of scope *)

\* where a thread goes once the guards of `todrop` are dropped
Then(todrop, after) == IF todrop = <<>> THEN after ELSE "drop"

\* a panic unwinds the frame: every live guard is dropped, latest first, and
\* a worker then drops the locals of ThreadShared::execute
UnwindTarget(loc) == IF loc.gw THEN "wdrop" ELSE "panicked"

Unwind(loc) ==
    [loc EXCEPT !.panicking = TRUE,
                !.todrop = Reverse(loc.held) \o Reverse(loc.locks),
                !.after = UnwindTarget(loc),
                !.ctx = "-", !.cell = "-", !.loaded = 0]

UnwindPc(loc) == Then(Reverse(loc.held) \o Reverse(loc.locks), UnwindTarget(loc))

\* the counter (or reader count) after guard g is dropped
DropStore(g) ==
    IF g[2] = "ref" THEN DropRefStore(borrow[g[1]]) ELSE DropMutStore(borrow[g[1]])

DropAsserts(g) ==
    IF g[2] = "ref" THEN DropRefAsserts(borrow[g[1]]) ELSE DropMutAsserts(borrow[g[1]])

Without(s, g) ==
    IF \E i \in 1..Len(s) : s[i] = g
    THEN RemoveAt(s, CHOOSE i \in 1..Len(s) : s[i] = g)
    ELSE s

\* one destructor runs: AtomicRef::drop, AtomicRefMut::drop or the release
\* of a registry read guard
DropGuard(w) ==
    /\ wpc[w] = "drop"
    /\ wloc[w].todrop # <<>>
    /\ LET g == Head(wloc[w].todrop)
           rest == Tail(wloc[w].todrop)
           failed == g[2] # "rlock" /\ DropAsserts(g)
           loc1 == [wloc[w] EXCEPT !.todrop = rest,
                                   !.held = Without(wloc[w].held, g),
                                   !.locks = Without(wloc[w].locks, g),
                                   !.forgot = Without(wloc[w].forgot, g),
                                   !.panicking = wloc[w].panicking \/ failed]
           target == IF loc1.panicking THEN UnwindTarget(loc1) ELSE loc1.after
       IN /\ IF g[2] = "rlock"
             THEN /\ readers' = [readers EXCEPT ![g[1]] = @ - 1]
                  /\ UNCHANGED borrow
             ELSE /\ borrow' = [borrow EXCEPT ![g[1]] = DropStore(g)]
                  /\ UNCHANGED readers
          /\ wloc' = [wloc EXCEPT ![w] = IF rest = <<>>
                                         THEN [loc1 EXCEPT !.after = "-"]
                                         ELSE loc1]
          /\ wpc' = [wpc EXCEPT ![w] = Then(rest, target)]
    /\ UNCHANGED <<data, build, systems, resReg, compReg, writer, status, parked, cache, ring,
                   token, nthreads, mpc, mi>>

-----------------------------------------------------------------------------
(* world/query.rs: what a failing QueryResources::new / QueryComponents::new *)
(* releases.  The read guard of the registry is forgotten (mem::forget), so   *)
(* only force_unlock_read releases the lock.                                  *)

\* the guards of the pack fetched from registry reg, in fetch order
PackGuards(loc, reg) ==
    SelectSeq(loc.held, LAMBDA g : (g[1] \in ResTypes) <=> (reg = "res"))

\* R::fetch / C::fetch returns Err(e): the elements already fetched are
\* dropped, the map_err closure calls force_unlock_read, and `?` returns e;
\* in Query::fetch the QueryResources obtained before is then dropped: its
\* Drop::drop unlocks the resource registry, then its field `resources` goes
QReturnErr(loc, e) ==
    LET reg == loc.forgot[Len(loc.forgot)][1]
    IN [loc EXCEPT !.err = e, !.res = e,
                   !.todrop = Reverse(PackGuards(loc, reg)) \o <<ReadLock(reg)>>
                                \o (IF loc.op = "fetch" /\ reg = "comp"
                                    THEN <<ReadLock("res")>> \o PackGuards(loc, "res")
                                    ELSE <<>>),
                   !.after = "x_idle",
                   !.ctx = "-", !.cell = "-", !.loaded = 0]

\* a panic inside R::fetch / C::fetch unwinds: the elements already fetched
\* are dropped and, in Query::fetch, the QueryResources obtained before;
\* the map_err closure does not run, and the forgotten read guard of the
\* registry being fetched from releases nothing
QUnwind(loc) ==
    LET reg == loc.forgot[Len(loc.forgot)][1]
        outer == loc.op = "fetch" /\ reg = "comp"
    IN [loc EXCEPT !.panicking = TRUE, !.res = "panic",
                   !.todrop = Reverse(PackGuards(loc, reg))
                                \o (IF outer
                                    THEN <<ReadLock("res")>> \o PackGuards(loc, "res")
                                    ELSE <<>>),
                   !.forgot = IF outer THEN <<ReadLock("res")>> ELSE <<>>,
                   !.after = "panicked",
                   !.ctx = "-", !.cell = "-", !.loaded = 0]

-----------------------------------------------------------------------------
(* cell.rs: try_borrow, one atomic operation per step *)

\* let borrow_state = self.borrow.load(Acquire)
TryBorrowLoad(w) ==
    /\ wpc[w] = "tb_load"
    /\ wloc' = [wloc EXCEPT ![w].loaded = borrow[wloc[w].cell]]
    /\ wpc' = [wpc EXCEPT ![w] = "tb_cas"]
    /\ UNCHANGED <<data, build, systems, resReg, compReg, writer, readers, borrow, status,
                   parked, cache, ring, token, nthreads, mpc, mi>>

\* the caller's locals once try_borrow has returned r ("some" | "none")
AfterTryBorrowLoc(loc, r) ==
    LET c == loc.cell
        base == [loc EXCEPT !.ctx = "-", !.cell = "-", !.loaded = 0]
    IN CASE loc.ctx = "cell" ->
                [base EXCEPT !.res = r,
                             !.held = IF r = "some" THEN Append(loc.held, Ref(c))
                                      ELSE loc.held]
         [] loc.ctx = "world" ->
                \* self.world.borrow(): None panics
                IF r = "some" THEN [base EXCEPT !.gw = TRUE] ELSE Unwind(base)
         [] loc.ctx = "fetch" ->
                IF r = "some"
                THEN [base EXCEPT !.held = Append(loc.held, Ref(c)),
                                  !.idx = loc.idx + 1]
                ELSE [base EXCEPT !.err = IF c \in ResTypes
                                          THEN "ResourceStorageInUse"
                                          ELSE "ComponentStorageInUse",
                                  !.todrop = Reverse(loc.held) \o Reverse(loc.locks),
                                  !.after = "push_cas"]
         [] loc.ctx = "qfetch" ->
                IF r = "some"
                THEN [base EXCEPT !.held = Append(loc.held, Ref(c)),
                                  !.idx = loc.idx + 1]
                ELSE QReturnErr(loc, IF c \in ResTypes
                                     THEN "ResourceStorageInUse"
                                     ELSE "ComponentStorageInUse")

AfterTryBorrowPc(loc, r) ==
    CASE loc.ctx = "cell" -> "t_idle"
      [] loc.ctx = "world" -> IF r = "some" THEN "pop_cas" ELSE UnwindPc(loc)
      [] loc.ctx = "fetch" ->
            IF r = "some"
            THEN IF loc.idx + 1 >= Len(Pack(loc.ex)) THEN "ex_user" ELSE "ex_fetch"
            ELSE Then(Reverse(loc.held) \o Reverse(loc.locks), "push_cas")
      [] loc.ctx = "qfetch" -> IF r = "some" THEN "q_fetch" ELSE "drop"

\* compare_and_swap(borrow_state, borrow_state + 1) and the branch on `old`
TryBorrowCAS(w) ==
    /\ wpc[w] = "tb_cas"
    /\ LET loc == wloc[w]
           c == loc.cell
           old == borrow[c]
           r == TryBorrowResult(old, loc.loaded)
       IN IF TryBorrowOverflows(loc.loaded)
          THEN /\ IF loc.ctx = "qfetch"
                  THEN /\ wloc' = [wloc EXCEPT ![w] = QUnwind(loc)]
                       /\ wpc' = [wpc EXCEPT ![w] = Then(QUnwind(loc).todrop, "panicked")]
                  ELSE /\ wloc' = [wloc EXCEPT ![w] = Unwind([loc EXCEPT !.res = "panic"])]
                       /\ wpc' = [wpc EXCEPT ![w] = UnwindPc(loc)]
               /\ UNCHANGED borrow
          ELSE /\ borrow' = [borrow EXCEPT ![c] = TryBorrowStore(old, loc.loaded)]
               /\ IF r = "retry"
                  THEN /\ wpc' = [wpc EXCEPT ![w] = "tb_load"]
                       /\ wloc' = [wloc EXCEPT ![w].loaded = 0]
                  ELSE /\ wpc' = [wpc EXCEPT ![w] = AfterTryBorrowPc(loc, r)]
                       /\ wloc' = [wloc EXCEPT ![w] = AfterTryBorrowLoc(loc, r)]
    /\ UNCHANGED <<data, build, systems, resReg, compReg, writer, readers, status, parked,
                   cache, ring, token, nthreads, mpc, mi>>

-----------------------------------------------------------------------------
(* A harness for one cell: threads call try_borrow and try_borrow_mut on    *)
(* CellUnderTest and drop the guards they got, in any order.                *)

CellCallTryBorrow(w) ==
    /\ wpc[w] = "t_idle"
    /\ Len(wloc[w].held) < MaxGuards
    /\ wloc' = [wloc EXCEPT ![w].ctx = "cell", ![w].cell = CellUnderTest,
                            ![w].op = "try_borrow", ![w].res = "-"]
    /\ wpc' = [wpc EXCEPT ![w] = "tb_load"]
    /\ UNCHANGED <<data, build, systems, resReg, compReg, writer, readers, borrow, status,
                   parked, cache, ring, token, nthreads, mpc, mi>>

CellCallTryBorrowMut(w) ==
    /\ wpc[w] = "t_idle"
    /\ Len(wloc[w].held) < MaxGuards
    /\ wloc' = [wloc EXCEPT ![w].op = "try_borrow_mut", ![w].res = "-"]
    /\ wpc' = [wpc EXCEPT ![w] = "tbm"]
    /\ UNCHANGED <<data, build, systems, resReg, compReg, writer, readers, borrow, status,
                   parked, cache, ring, token, nthreads, mpc, mi>>

\* try_borrow_mut: one compare_and_swap
CellTryBorrowMut(w) ==
    /\ wpc[w] = "tbm"
    /\ LET old == borrow[CellUnderTest]
       IN /\ borrow' = [borrow EXCEPT ![CellUnderTest] = TryBorrowMutStore(old)]
          /\ wloc' = [wloc EXCEPT
                 ![w].res = IF TryBorrowMutOk(old) THEN "some" ELSE "none",
                 ![w].held = IF TryBorrowMutOk(old)
                             THEN Append(@, RefMut(CellUnderTest)) ELSE @]
    /\ wpc' = [wpc EXCEPT ![w] = "t_idle"]
    /\ UNCHANGED <<data, build, systems, resReg, compReg, writer, readers, status, parked,
                   cache, ring, token, nthreads, mpc, mi>>

\* the guard AtomicRef::map / AtomicRefMut::map returns: a new guard built
\* on the flag of the guard it consumed
Mapped(g) == <<g[1], g[2], "mapped">>

\* a map whose consumed guard runs its destructor
MapCounter_Dropped(cur) == DropRefStore(cur)

\* the counter after map: the consumed guard is forgotten (mem::forget,
\* ManuallyDrop), its destructor does not run
MapCounter(cur) == cur

\* AtomicRef::map / AtomicRefMut::map on one of the thread's guards
CellMap(w) ==
    /\ wpc[w] = "t_idle"
    /\ \E i \in 1..Len(wloc[w].held) :
          LET g == wloc[w].held[i]
          IN /\ borrow' = [borrow EXCEPT ![g[1]] = MapCounter(@)]
             /\ wloc' = [wloc EXCEPT ![w].held[i] = Mapped(g),
                                     ![w].op = "map", ![w].res = "-"]
    /\ UNCHANGED <<data, build, systems, resReg, compReg, writer, readers, status, parked,
                   cache, ring, token, wpc, nthreads, mpc, mi>>

\* one of the thread's guards goes out of scope
CellDrop(w) ==
    /\ wpc[w] = "t_idle"
    /\ \E i \in 1..Len(wloc[w].held) :
          LET g == wloc[w].held[i]
              loc1 == [wloc[w] EXCEPT !.held = RemoveAt(wloc[w].held, i),
                                      !.op = "drop", !.res = "-"]
          IN /\ borrow' = [borrow EXCEPT ![g[1]] = DropStore(g)]
             /\ IF DropAsserts(g)
                THEN /\ wloc' = [wloc EXCEPT ![w] = Unwind(loc1)]
                     /\ wpc' = [wpc EXCEPT ![w] = UnwindPc(loc1)]
                ELSE /\ wloc' = [wloc EXCEPT ![w] = loc1]
                     /\ UNCHANGED wpc
    /\ UNCHANGED <<data, build, systems, resReg, compReg, writer, readers, status, parked,
                   cache, ring, token, nthreads, mpc, mi>>

NoSystems == [s \in Sys |-> <<>>]

InitCell ==
    /\ build \in {"debug", "release"}
    /\ systems = NoSystems
    /\ resReg = {}
    /\ compReg = {}
    /\ readers = [r \in {"res", "comp"} |-> 0]
    /\ writer = [r \in {"res", "comp"} |-> FALSE]
    /\ borrow = [c \in Cells |-> 0]
    /\ status = RUNNING
    /\ parked = 0
    /\ cache = NoExec
    /\ ring = <<>>
    /\ token = [w \in Workers |-> FALSE]
    /\ wpc = [w \in Workers |-> "t_idle"]
    /\ wloc = [w \in Workers |-> IdleLoc]
    /\ nthreads = 0
    /\ mpc = "-"
    /\ mi = 0
    /\ world = WorldNew
    /\ call = [op |-> "-", ty |-> "-", id |-> 0, ct |-> <<>>, ret |-> <<>>]

NextCell ==
    \E w \in Workers :
        \/ CellCallTryBorrow(w)
        \/ TryBorrowLoad(w)
        \/ TryBorrowCAS(w)
        \/ CellCallTryBorrowMut(w)
        \/ CellTryBorrowMut(w)
        \/ CellMap(w)
        \/ CellDrop(w)
        \/ DropGuard(w)

SpecCell == InitCell /\ [][NextCell]_vars

-----------------------------------------------------------------------------
(* system/mod.rs, system/executor.rs: the executor's fetch path *)

\* allocator.contains::<T>()
Contains(e) == IF e.reg = "res" THEN e.ty \in resReg ELSE e.ty \in compReg

NoSuchStorage(reg) ==
    IF reg = "res" THEN "NoSuchResourceStorage" ELSE "NoSuchComponentStorage"

LockedExclusive(reg) ==
    IF reg = "res" THEN "ResourceLockedExclusive" ELSE "ComponentLockedExclusive"

\* the `?` of ExecutorVTable::execute: the frame's temporaries and guards
\* are dropped, latest first, and err is returned
ReturnErr(loc, e) ==
    [loc EXCEPT !.err = e,
                !.todrop = Reverse(loc.held) \o Reverse(loc.locks),
                !.after = "push_cas",
                !.ctx = "-", !.cell = "-", !.loaded = 0]

ReturnErrPc(loc) == Then(Reverse(loc.held) \o Reverse(loc.locks), "push_cas")

\* after the last element of the packs is fetched the system is called
FetchPc(s, idx) == IF idx >= Len(Pack(s)) THEN "ex_user" ELSE "ex_fetch"

\* a try_read of the resource registry that is granted whatever the lock's
\* state
ExTryReadResources_Blind(w) ==
    /\ wpc[w] = "ex_rlock"
    /\ readers' = [readers EXCEPT !["res"] = @ + 1]
    /\ wloc' = [wloc EXCEPT ![w].locks = Append(@, ReadLock("res"))]
    /\ wpc' = [wpc EXCEPT ![w] = "ex_clock"]
    /\ UNCHANGED <<data, build, systems, resReg, compReg, writer, borrow, status,
                   parked, cache, ring, token, nthreads, mpc, mi>>

\* resource_alloc.try_read().ok_or(ResourceLockedExclusive)?
ExTryReadResources(w) ==
    /\ wpc[w] = "ex_rlock"
    /\ IF writer["res"]
       THEN /\ wloc' = [wloc EXCEPT ![w] = ReturnErr(wloc[w], LockedExclusive("res"))]
            /\ wpc' = [wpc EXCEPT ![w] = ReturnErrPc(wloc[w])]
            /\ UNCHANGED readers
       ELSE /\ readers' = [readers EXCEPT !["res"] = @ + 1]
            /\ wloc' = [wloc EXCEPT ![w].locks = Append(@, ReadLock("res"))]
            /\ wpc' = [wpc EXCEPT ![w] = "ex_clock"]
    /\ UNCHANGED <<data, build, systems, resReg, compReg, writer, borrow, status,
                   parked, cache, ring, token, nthreads, mpc, mi>>

\* component_alloc.try_read().ok_or(ComponentLockedExclusive)?
ExTryReadComponents(w) ==
    /\ wpc[w] = "ex_clock"
    /\ IF writer["comp"]
       THEN /\ wloc' = [wloc EXCEPT ![w] = ReturnErr(wloc[w], LockedExclusive("comp"))]
            /\ wpc' = [wpc EXCEPT ![w] = ReturnErrPc(wloc[w])]
            /\ UNCHANGED readers
       ELSE /\ readers' = [readers EXCEPT !["comp"] = @ + 1]
            /\ wloc' = [wloc EXCEPT ![w].locks = Append(@, ReadLock("comp")),
                                    ![w].idx = 0]
            /\ wpc' = [wpc EXCEPT ![w] = FetchPc(wloc[w].ex, 0)]
    /\ UNCHANGED <<data, build, systems, resReg, compReg, writer, borrow, status,
                   parked, cache, ring, token, nthreads, mpc, mi>>

\* ResourceData::fetch / ComponentData::fetch of the next pack element:
\* contains, then try_get_mut_unchecked (one CAS) or try_get_unchecked (the
\* load of try_borrow; its CAS is TryBorrowCAS)
ExFetch(w) ==
    /\ wpc[w] = "ex_fetch"
    /\ LET loc == wloc[w]
           e == Pack(loc.ex)[loc.idx + 1]
           old == borrow[e.ty]
       IN IF ~Contains(e)
          THEN /\ wloc' = [wloc EXCEPT ![w] = ReturnErr(loc, NoSuchStorage(e.reg))]
               /\ wpc' = [wpc EXCEPT ![w] = ReturnErrPc(loc)]
               /\ UNCHANGED borrow
          ELSE IF e.mode = "W"
          THEN /\ borrow' = [borrow EXCEPT ![e.ty] = TryBorrowMutStore(old)]
               /\ IF TryBorrowMutOk(old)
                  THEN /\ wloc' = [wloc EXCEPT ![w].held = Append(@, RefMut(e.ty)),
                                               ![w].idx = @ + 1]
                       /\ wpc' = [wpc EXCEPT ![w] = FetchPc(loc.ex, loc.idx + 1)]
                  ELSE /\ wloc' = [wloc EXCEPT ![w] = ReturnErr(loc, StorageInUse(e.reg))]
                       /\ wpc' = [wpc EXCEPT ![w] = ReturnErrPc(loc)]
          ELSE /\ wloc' = [wloc EXCEPT ![w].ctx = "fetch", ![w].cell = e.ty,
                                       ![w].loaded = old]
               /\ wpc' = [wpc EXCEPT ![w] = "tb_cas"]
               /\ UNCHANGED borrow
    /\ UNCHANGED <<data, build, systems, resReg, compReg, readers, writer, status,
                   parked, cache, ring, token, nthreads, mpc, mi>>

\* the order in which a returning system.execute and then
\* ExecutorVTable::execute drop what they own: the Components pack, the
\* Resources pack, component_guard, resource_guard
ReturnOrder(loc) ==
    LET n == ResourcesOf(loc.ex)
    IN SubSeq(loc.held, n + 1, Len(loc.held)) \o SubSeq(loc.held, 1, n)
         \o Reverse(loc.locks)

\* (*inner).system.execute(resources, components) runs to its end
ExUserExecute(w) ==
    /\ wpc[w] = "ex_user"
    /\ wloc' = [wloc EXCEPT ![w].err = "Ok",
                            ![w].todrop = ReturnOrder(wloc[w]),
                            ![w].after = "push_cas"]
    /\ wpc' = [wpc EXCEPT ![w] = Then(ReturnOrder(wloc[w]), "push_cas")]
    /\ UNCHANGED <<data, build, systems, resReg, compReg, readers, writer, borrow,
                   status, parked, cache, ring, token, nthreads, mpc, mi>>

-----------------------------------------------------------------------------
(* system/dispatch.rs: SystemQueue *)

\* ArrayQueue::new(capacity), capacity = the number of configured systems
Capacity == Cardinality(Sys)

\* the cache guard of push / pop, a temporary of the match, is dropped when
\* the function returns
CacheRelease(w) ==
    /\ wpc[w] = "cache_rel"
    /\ borrow' = [borrow EXCEPT !["cache"] = DropMutStore(@)]
    /\ LET loc1 == [wloc[w] EXCEPT !.gc = FALSE, !.after = "-"]
       IN IF DropMutAsserts(borrow["cache"]) \/ wloc[w].after = "panic"
          THEN /\ wloc' = [wloc EXCEPT ![w] = Unwind(loc1)]
               /\ wpc' = [wpc EXCEPT ![w] = UnwindPc(loc1)]
          ELSE /\ wloc' = [wloc EXCEPT ![w] = loc1]
               /\ wpc' = [wpc EXCEPT ![w] = wloc[w].after]
    /\ UNCHANGED <<data, build, systems, resReg, compReg, readers, writer, status,
                   parked, cache, ring, token, nthreads, mpc, mi>>

\* SystemQueue::pop: self.cache.try_borrow_mut()
PopCache(w) ==
    /\ wpc[w] = "pop_cas"
    /\ borrow' = [borrow EXCEPT !["cache"] = TryBorrowMutStore(@)]
    /\ wloc' = [wloc EXCEPT ![w].gc = TryBorrowMutOk(borrow["cache"])]
    /\ wpc' = [wpc EXCEPT ![w] = "pop_body"]
    /\ UNCHANGED <<data, build, systems, resReg, compReg, readers, writer, status,
                   parked, cache, ring, token, nthreads, mpc, mi>>

\* a pop that reads the ring before the cache
PopTake_RingFirst(w) ==
    /\ wpc[w] = "pop_body"
    /\ LET loc == wloc[w]
           fromRing == ring # <<>>
           fromCache == ~fromRing /\ loc.gc /\ cache # NoExec
           got == IF fromRing THEN Head(ring)
                  ELSE IF fromCache THEN cache ELSE NoExec
           next == IF got # NoExec THEN "ex_rlock" ELSE "wdrop"
       IN /\ cache' = IF fromCache THEN NoExec ELSE cache
          /\ ring' = IF fromRing THEN Tail(ring) ELSE ring
          /\ wloc' = [wloc EXCEPT ![w].ex = got,
                                  ![w].after = IF loc.gc THEN next ELSE "-"]
          /\ wpc' = [wpc EXCEPT ![w] = IF loc.gc THEN "cache_rel" ELSE next]
    /\ UNCHANGED <<data, build, systems, resReg, compReg, readers, writer, borrow,
                   status, parked, token, nthreads, mpc, mi>>

\* SystemQueue::pop: the arm taken: cached.take() or self.queue.pop().ok();
\* with no executor the worker snoozes and leaves ThreadShared::execute
PopTake(w) ==
    /\ wpc[w] = "pop_body"
    /\ LET loc == wloc[w]
           fromCache == loc.gc /\ cache # NoExec
           got == IF fromCache THEN cache
                  ELSE IF ring # <<>> THEN Head(ring) ELSE NoExec
           next == IF got # NoExec THEN "ex_rlock" ELSE "wdrop"
       IN /\ cache' = IF fromCache THEN NoExec ELSE cache
          /\ ring' = IF ~fromCache /\ ring # <<>> THEN Tail(ring) ELSE ring
          /\ wloc' = [wloc EXCEPT ![w].ex = got,
                                  ![w].after = IF loc.gc THEN next ELSE "-"]
          /\ wpc' = [wpc EXCEPT ![w] = IF loc.gc THEN "cache_rel" ELSE next]
    /\ UNCHANGED <<data, build, systems, resReg, compReg, readers, writer, borrow,
                   status, parked, token, nthreads, mpc, mi>>

\* SystemQueue::push: self.cache.try_borrow_mut()
PushCache(w) ==
    /\ wpc[w] = "push_cas"
    /\ borrow' = [borrow EXCEPT !["cache"] = TryBorrowMutStore(@)]
    /\ wloc' = [wloc EXCEPT ![w].gc = TryBorrowMutOk(borrow["cache"])]
    /\ wpc' = [wpc EXCEPT ![w] = "push_body"]
    /\ UNCHANGED <<data, build, systems, resReg, compReg, readers, writer, status,
                   parked, cache, ring, token, nthreads, mpc, mi>>

\* SystemQueue::push: the arm taken: *cached = Some(executor) or
\* self.queue.push(executor); the worker's expect("System queue was full.")
\* panics on Err
PushPut(w) ==
    /\ wpc[w] = "push_body"
    /\ LET loc == wloc[w]
           toCache == loc.gc /\ cache = NoExec
           toRing == ~toCache /\ Len(ring) < Capacity
           next == IF toCache \/ toRing THEN "wdrop" ELSE "panic"
           loc1 == [loc EXCEPT !.ex = IF toCache \/ toRing THEN NoExec ELSE loc.ex,
                               !.after = IF loc.gc THEN next ELSE "-"]
       IN /\ cache' = IF toCache THEN loc.ex ELSE cache
          /\ ring' = IF toRing THEN Append(ring, loc.ex) ELSE ring
          /\ IF loc.gc
             THEN /\ wloc' = [wloc EXCEPT ![w] = loc1]
                  /\ wpc' = [wpc EXCEPT ![w] = "cache_rel"]
             ELSE IF next = "panic"
             THEN /\ wloc' = [wloc EXCEPT ![w] = Unwind(loc1)]
                  /\ wpc' = [wpc EXCEPT ![w] = UnwindPc(loc1)]
             ELSE /\ wloc' = [wloc EXCEPT ![w] = loc1]
                  /\ wpc' = [wpc EXCEPT ![w] = next]
    /\ UNCHANGED <<data, build, systems, resReg, compReg, readers, writer, borrow,
                   status, parked, token, nthreads, mpc, mi>>

-----------------------------------------------------------------------------
(* system/dispatch.rs: the worker loop *)

\* match shared.status.load(Acquire); RUNNING enters ThreadShared::execute,
\* whose first statement is self.world.borrow()
LoadStatus(w) ==
    /\ wpc[w] = "top"
    /\ wpc' = [wpc EXCEPT ![w] = CASE status = RUNNING -> "tb_load"
                                   [] status = PARKED -> "park_inc"
                                   [] status = SHUTDOWN -> "returned"]
    /\ wloc' = [wloc EXCEPT ![w] = IF status = RUNNING
                                   THEN [IdleLoc EXCEPT !.ctx = "world",
                                                        !.cell = "world"]
                                   ELSE IdleLoc]
    /\ UNCHANGED <<data, build, systems, resReg, compReg, readers, writer, borrow,
                   status, parked, cache, ring, token, nthreads, mpc, mi>>

\* shared.parked.fetch_add(1)
ParkedAdd(w) ==
    /\ wpc[w] = "park_inc"
    /\ parked' = parked + 1
    /\ wpc' = [wpc EXCEPT ![w] = "parking"]
    /\ UNCHANGED <<data, build, systems, resReg, compReg, readers, writer, borrow,
                   status, cache, ring, token, wloc, nthreads, mpc, mi>>

\* thread::park() returns on the thread's token, consuming it
Park(w) ==
    /\ wpc[w] = "parking"
    /\ token[w]
    /\ token' = [token EXCEPT ![w] = FALSE]
    /\ wpc' = [wpc EXCEPT ![w] = "park_dec"]
    /\ UNCHANGED <<data, build, systems, resReg, compReg, readers, writer, borrow,
                   status, parked, cache, ring, wloc, nthreads, mpc, mi>>

\* thread::park() may also return spuriously
ParkSpurious(w) ==
    /\ wpc[w] = "parking"
    /\ ~token[w]
    /\ wpc' = [wpc EXCEPT ![w] = "park_dec"]
    /\ UNCHANGED <<data, build, systems, resReg, compReg, readers, writer, borrow,
                   status, parked, cache, ring, token, wloc, nthreads, mpc, mi>>

\* shared.parked.fetch_sub(1)
ParkedSub(w) ==
    /\ wpc[w] = "park_dec"
    /\ parked' = parked - 1
    /\ wpc' = [wpc EXCEPT ![w] = "top"]
    /\ UNCHANGED <<data, build, systems, resReg, compReg, readers, writer, borrow,
                   status, cache, ring, token, wloc, nthreads, mpc, mi>>

\* the end of ThreadShared::execute (or its unwinding): `world`, the
\* AtomicRef of the world, is dropped; a panicking thread ends, and the
\* executor it held is dropped with it
DropWorld(w) ==
    /\ wpc[w] = "wdrop"
    /\ borrow' = [borrow EXCEPT !["world"] = DropRefStore(@)]
    /\ IF wloc[w].panicking \/ DropRefAsserts(borrow["world"])
       THEN /\ wpc' = [wpc EXCEPT ![w] = "panicked"]
            /\ wloc' = [wloc EXCEPT ![w] = [IdleLoc EXCEPT !.panicking = TRUE]]
       ELSE /\ wpc' = [wpc EXCEPT ![w] = "top"]
            /\ wloc' = [wloc EXCEPT ![w] = IdleLoc]
    /\ UNCHANGED <<data, build, systems, resReg, compReg, readers, writer, status,
                   parked, cache, ring, token, nthreads, mpc, mi>>

-----------------------------------------------------------------------------
(* system/dispatch.rs: the Dispatcher's owner *)

Spawned == 1..nthreads

\* Dispatcher::dispatch: one thread per slot of `threads`
Dispatch ==
    /\ mpc = "idle"
    /\ nthreads = 0
    /\ nthreads' = NumWorkers
    /\ wpc' = [w \in Workers |-> "top"]
    /\ UNCHANGED <<data, build, systems, resReg, compReg, readers, writer, borrow,
                   status, parked, cache, ring, token, wloc, mpc, mi>>

\* Dispatcher::world: self.park_all()
WorldParkAll ==
    /\ mpc = "idle"
    /\ status' = PARKED
    /\ mpc' = "w_spin"
    /\ UNCHANGED <<data, build, systems, resReg, compReg, readers, writer, borrow,
                   parked, cache, ring, token, wpc, wloc, nthreads, mi>>

\* a world() that does not wait for the workers to park
WorldSpin_NoWait ==
    /\ mpc = "w_spin"
    /\ mpc' = "w_borrow"
    /\ UNCHANGED <<data, build, systems, resReg, compReg, readers, writer, borrow,
                   status, parked, cache, ring, token, wpc, wloc, nthreads, mi>>

\* a world() that waits for one parked worker instead of all of them
WorldSpin_AnyParked ==
    /\ mpc = "w_spin"
    /\ (parked > 0 \/ nthreads = 0)
    /\ mpc' = "w_borrow"
    /\ UNCHANGED <<data, build, systems, resReg, compReg, readers, writer, borrow,
                   status, parked, cache, ring, token, wpc, wloc, nthreads, mi>>

\* Dispatcher::world: the spin loop ends when parked == threads.len()
WorldSpin ==
    /\ mpc = "w_spin"
    /\ parked = nthreads
    /\ mpc' = "w_borrow"
    /\ UNCHANGED <<data, build, systems, resReg, compReg, readers, writer, borrow,
                   status, parked, cache, ring, token, wpc, wloc, nthreads, mi>>

\* Dispatcher::world: WorldHandle(self, self.shared.world.borrow_mut())
WorldBorrowMut ==
    /\ mpc = "w_borrow"
    /\ borrow' = [borrow EXCEPT !["world"] = TryBorrowMutStore(@)]
    /\ mpc' = IF TryBorrowMutOk(borrow["world"]) THEN "holding" ELSE "panicked"
    /\ UNCHANGED <<data, build, systems, resReg, compReg, readers, writer, status,
                   parked, cache, ring, token, wpc, wloc, nthreads, mi>>

\* Dispatcher::unpark_all: every spawned thread's token is set
UnparkAll == [w \in Workers |-> IF w \in Spawned THEN TRUE ELSE token[w]]

\* WorldHandle::drop: self.0.unpark_all()
HandleDrop ==
    /\ mpc = "holding"
    /\ token' = UnparkAll
    /\ mpc' = "h_release"
    /\ UNCHANGED <<data, build, systems, resReg, compReg, readers, writer, borrow,
                   status, parked, cache, ring, wpc, wloc, nthreads, mi>>

\* then the handle's field, the AtomicRefMut of the world, is dropped
HandleRelease ==
    /\ mpc = "h_release"
    /\ borrow' = [borrow EXCEPT !["world"] = DropMutStore(@)]
    /\ mpc' = IF DropMutAsserts(borrow["world"]) THEN "panicked" ELSE "idle"
    /\ UNCHANGED <<data, build, systems, resReg, compReg, readers, writer, status,
                   parked, cache, ring, token, wpc, wloc, nthreads, mi>>

\* Dispatcher::shutdown: self.unpark_all()
ShutdownUnpark ==
    /\ mpc = "idle"
    /\ token' = UnparkAll
    /\ mpc' = "sd_store"
    /\ UNCHANGED <<data, build, systems, resReg, compReg, readers, writer, borrow,
                   status, parked, cache, ring, wpc, wloc, nthreads, mi>>

\* Dispatcher::shutdown: self.shared.status.store(SHUTDOWN)
ShutdownStore ==
    /\ mpc = "sd_store"
    /\ status' = SHUTDOWN
    /\ mpc' = "sd_join"
    /\ mi' = 1
    /\ UNCHANGED <<data, build, systems, resReg, compReg, readers, writer, borrow,
                   parked, cache, ring, token, wpc, wloc, nthreads>>

\* Dispatcher::shutdown: thread.join() of the next thread; a panicked thread
\* makes join panic
ShutdownJoin ==
    /\ mpc = "sd_join"
    /\ mi <= nthreads
    /\ wpc[mi] \in {"returned", "panicked"}
    /\ IF wpc[mi] = "returned"
       THEN mi' = mi + 1 /\ UNCHANGED mpc
       ELSE mpc' = "panicked" /\ mi' = 0
    /\ UNCHANGED <<data, build, systems, resReg, compReg, readers, writer, borrow,
                   status, parked, cache, ring, token, wpc, wloc, nthreads>>

\* a shutdown that returns only once the queue is empty
ShutdownReturn_WhenDrained ==
    /\ mpc = "sd_join"
    /\ mi > nthreads
    /\ cache = NoExec
    /\ ring = <<>>
    /\ mpc' = "done"
    /\ mi' = 0
    /\ UNCHANGED <<data, build, systems, resReg, compReg, readers, writer, borrow,
                   status, parked, cache, ring, token, wpc, wloc, nthreads>>

\* Dispatcher::shutdown: Arc::try_unwrap(self.shared), shared.world.into_inner()
ShutdownReturn ==
    /\ mpc = "sd_join"
    /\ mi > nthreads
    /\ mpc' = "done"
    /\ mi' = 0
    /\ UNCHANGED <<data, build, systems, resReg, compReg, readers, writer, borrow,
                   status, parked, cache, ring, token, wpc, wloc, nthreads>>

\* the added executor is in the queue, with a worker, or being pushed
AddedPresent ==
    \/ cache = Added
    \/ \E i \in 1..Len(ring) : ring[i] = Added
    \/ \E w \in Workers : wloc[w].ex = Added
    \/ mpc \in {"ae_put_g", "ae_put_n", "ae_rel"}

\* Dispatcher::add_executor -> SystemQueue::push: self.cache.try_borrow_mut()
AddExecutorCache ==
    /\ mpc = "idle"
    /\ ~AddedPresent
    /\ borrow' = [borrow EXCEPT !["cache"] = TryBorrowMutStore(@)]
    /\ mpc' = IF TryBorrowMutOk(borrow["cache"]) THEN "ae_put_g" ELSE "ae_put_n"
    /\ UNCHANGED <<data, build, systems, resReg, compReg, readers, writer, status,
                   parked, cache, ring, token, wpc, wloc, nthreads, mi>>

\* SystemQueue::push: the arm taken; with the ring full the executor is
\* handed back to the caller as Err
AddExecutorPut ==
    /\ mpc \in {"ae_put_g", "ae_put_n"}
    /\ LET toCache == mpc = "ae_put_g" /\ cache = NoExec
           toRing == ~toCache /\ Len(ring) < Capacity
       IN /\ cache' = IF toCache THEN Added ELSE cache
          /\ ring' = IF toRing THEN Append(ring, Added) ELSE ring
    /\ mpc' = IF mpc = "ae_put_g" THEN "ae_rel" ELSE "idle"
    /\ UNCHANGED <<data, build, systems, resReg, compReg, readers, writer, borrow,
                   status, parked, token, wpc, wloc, nthreads, mi>>

\* SystemQueue::push returns: the cache guard is dropped
AddExecutorRelease ==
    /\ mpc = "ae_rel"
    /\ borrow' = [borrow EXCEPT !["cache"] = DropMutStore(@)]
    /\ mpc' = IF DropMutAsserts(borrow["cache"]) THEN "panicked" ELSE "idle"
    /\ UNCHANGED <<data, build, systems, resReg, compReg, readers, writer, status,
                   parked, cache, ring, token, wpc, wloc, nthreads, mi>>

-----------------------------------------------------------------------------
(* The dispatcher with its workers *)

\* S2 of the specification: A writes Clock, B reads it
ContentionPacks ==
    [A |-> <<Write("res", "Clock")>>, B |-> <<Read("res", "Clock")>>]

\* packs of several elements that overlap in opposite orders
JoinPacks ==
    [A |-> <<Read("res", "Clock"), Write("comp", "Pos"), Write("comp", "Vel")>>,
     B |-> <<Write("comp", "Vel"), Read("comp", "Pos")>>]

\* packs that name types nobody registered
MissingPacks ==
    [A |-> <<Write("res", "Clock"), Read("res", "Ghost")>>,
     B |-> <<Read("comp", "Pos"), Write("comp", "Phantom")>>]

Worlds ==
    {[packs |-> ContentionPacks, res |-> {"Clock"}, comp |-> {}],
     [packs |-> JoinPacks, res |-> {"Clock"}, comp |-> {"Pos", "Vel"}],
     [packs |-> MissingPacks, res |-> {"Clock"}, comp |-> {"Pos"}]}

\* DispatchBuilder::build on a world with its types registered:
\* ThreadShared::new, and every system pushed on the ring (push_no_cache)
Init ==
    /\ build \in {"debug", "release"}
    /\ \E c \in Worlds :
          /\ systems = c.packs
          /\ resReg = c.res
          /\ compReg = c.comp
    /\ readers = [r \in {"res", "comp"} |-> 0]
    /\ writer = [r \in {"res", "comp"} |-> FALSE]
    /\ borrow = [c \in Cells |-> 0]
    /\ status = RUNNING
    /\ parked = 0
    /\ cache = NoExec
    /\ ring = <<"A", "B">>
    /\ token = [w \in Workers |-> FALSE]
    /\ wpc = [w \in Workers |-> "unspawned"]
    /\ wloc = [w \in Workers |-> IdleLoc]
    /\ nthreads = 0
    /\ mpc = "idle"
    /\ mi = 0
    /\ world = [WorldNew EXCEPT !.columns = [t \in compReg |-> StorageNew],
                                !.resources = [t \in resReg |-> 1]]
    /\ call = [op |-> "-", ty |-> "-", id |-> 0, ct |-> <<>>, ret |-> <<>>]

WorkerStep(w) ==
    \/ LoadStatus(w)
    \/ ParkedAdd(w)
    \/ Park(w)
    \/ ParkedSub(w)
    \/ TryBorrowLoad(w)
    \/ TryBorrowCAS(w)
    \/ PopCache(w)
    \/ PopTake(w)
    \/ CacheRelease(w)
    \/ ExTryReadResources(w)
    \/ ExTryReadComponents(w)
    \/ ExFetch(w)
    \/ ExUserExecute(w)
    \/ DropGuard(w)
    \/ PushCache(w)
    \/ PushPut(w)
    \/ DropWorld(w)

OwnerStep ==
    \/ Dispatch
    \/ WorldParkAll
    \/ WorldSpin
    \/ WorldBorrowMut
    \/ HandleDrop
    \/ HandleRelease
    \/ ShutdownUnpark
    \/ ShutdownStore
    \/ ShutdownJoin
    \/ ShutdownReturn
    \/ AddExecutorCache
    \/ AddExecutorPut
    \/ AddExecutorRelease

Next ==
    \/ \E w \in Workers : WorkerStep(w)
    \/ \E w \in Workers : ParkSpurious(w)
    \/ OwnerStep

Spec == Init /\ [][Next]_vars

\* the steps of the owner that are not its own choice to start something
OwnerProgress ==
    \/ WorldSpin
    \/ WorldBorrowMut
    \/ HandleRelease
    \/ ShutdownStore
    \/ ShutdownJoin
    \/ ShutdownReturn
    \/ AddExecutorPut
    \/ AddExecutorRelease

\* every OS thread keeps being scheduled; a park that holds no token need
\* never return (ParkSpurious is not fair)
FairSpec ==
    /\ Spec
    /\ \A w \in Workers : WF_vars(WorkerStep(w))
    /\ WF_vars(OwnerProgress)

-----------------------------------------------------------------------------
(* world/query.rs and system/executor.rs: threads that call                 *)
(* SystemExecutor::execute and Query::fetch* on the registries of one world, *)
(* and drop the QueryResources / QueryComponents they obtained; the          *)
(* registries' locks may be write-locked by their holder in between.         *)

Fetches == {"fetch", "fetch_resources", "fetch_components"}

\* executor.execute(&resources, &components) is called
XExecute(w) ==
    /\ wpc[w] = "x_idle"
    /\ wloc[w].held = <<>>
    /\ wloc[w].forgot = <<>>
    /\ \E s \in Sys : wloc' = [wloc EXCEPT ![w] = [IdleLoc EXCEPT !.ex = s,
                                                                  !.op = "execute"]]
    /\ wpc' = [wpc EXCEPT ![w] = "ex_rlock"]
    /\ UNCHANGED <<data, build, systems, resReg, compReg, readers, writer, borrow,
                   status, parked, cache, ring, token, nthreads, mpc, mi>>

\* SystemExecutor::execute has returned its Result to the caller
XReturn(w) ==
    /\ wpc[w] = "push_cas"
    /\ wloc' = [wloc EXCEPT ![w] = [IdleLoc EXCEPT !.op = "execute",
                                                   !.res = wloc[w].err]]
    /\ wpc' = [wpc EXCEPT ![w] = "x_idle"]
    /\ UNCHANGED <<data, build, systems, resReg, compReg, readers, writer, borrow,
                   status, parked, cache, ring, token, nthreads, mpc, mi>>

\* Query::<R, C>::query(world).fetch() / fetch_resources() /
\* fetch_components(), R and C the packs of system s
QCall(w) ==
    /\ wpc[w] = "x_idle"
    /\ wloc[w].held = <<>>
    /\ wloc[w].forgot = <<>>
    /\ \E s \in Sys, k \in Fetches :
          wloc' = [wloc EXCEPT ![w] = [IdleLoc EXCEPT !.ex = s, !.op = k]]
    /\ wpc' = [wpc EXCEPT ![w] = "q_read"]
    /\ UNCHANGED <<data, build, systems, resReg, compReg, readers, writer, borrow,
                   status, parked, cache, ring, token, nthreads, mpc, mi>>

\* QueryResources::new / QueryComponents::new: the registry's read() waits
\* for a writer to leave, and the guard is forgotten
QRead(w) ==
    /\ wpc[w] = "q_read"
    /\ LET loc == wloc[w]
           reg == IF loc.op = "fetch_components" \/ loc.forgot # <<>>
                  THEN "comp" ELSE "res"
       IN /\ ~writer[reg]
          /\ readers' = [readers EXCEPT ![reg] = @ + 1]
          /\ wloc' = [wloc EXCEPT ![w].forgot = Append(@, ReadLock(reg)),
                                  ![w].idx = IF reg = "res" THEN 0
                                             ELSE ResourcesOf(loc.ex)]
    /\ wpc' = [wpc EXCEPT ![w] = "q_fetch"]
    /\ UNCHANGED <<data, build, systems, resReg, compReg, writer, borrow,
                   status, parked, cache, ring, token, nthreads, mpc, mi>>

\* R::fetch / C::fetch of the next element of the pack, as ExFetch; past the
\* last element the value is built (Ok(Self { world, resources })) and
\* Query::fetch goes on with the components
QFetch(w) ==
    /\ wpc[w] = "q_fetch"
    /\ LET loc == wloc[w]
           reg == loc.forgot[Len(loc.forgot)][1]
           end == IF reg = "res" THEN ResourcesOf(loc.ex) ELSE Len(Pack(loc.ex))
           e == Pack(loc.ex)[loc.idx + 1]
           old == borrow[e.ty]
       IN IF loc.idx >= end
          THEN /\ IF loc.op = "fetch" /\ reg = "res"
                  THEN /\ wpc' = [wpc EXCEPT ![w] = "q_read"]
                       /\ UNCHANGED wloc
                  ELSE /\ wpc' = [wpc EXCEPT ![w] = "x_idle"]
                       /\ wloc' = [wloc EXCEPT ![w].res = "Ok"]
               /\ UNCHANGED borrow
          ELSE IF ~Contains(e)
          THEN /\ wloc' = [wloc EXCEPT ![w] = QReturnErr(loc, NoSuchStorage(e.reg))]
               /\ wpc' = [wpc EXCEPT ![w] = "drop"]
               /\ UNCHANGED borrow
          ELSE IF e.mode = "W"
          THEN /\ borrow' = [borrow EXCEPT ![e.ty] = TryBorrowMutStore(old)]
               /\ IF TryBorrowMutOk(old)
                  THEN /\ wloc' = [wloc EXCEPT ![w].held = Append(@, RefMut(e.ty)),
                                               ![w].idx = @ + 1]
                       /\ UNCHANGED wpc
                  ELSE /\ wloc' = [wloc EXCEPT ![w] = QReturnErr(loc, StorageInUse(e.reg))]
                       /\ wpc' = [wpc EXCEPT ![w] = "drop"]
          ELSE /\ wloc' = [wloc EXCEPT ![w].ctx = "qfetch", ![w].cell = e.ty,
                                       ![w].loaded = old]
               /\ wpc' = [wpc EXCEPT ![w] = "tb_cas"]
               /\ UNCHANGED borrow
    /\ UNCHANGED <<data, build, systems, resReg, compReg, readers, writer, status,
                   parked, cache, ring, token, nthreads, mpc, mi>>

\* a QueryResources / QueryComponents the thread owns is dropped:
\* Drop::drop calls force_unlock_read, then the field holding the pack is
\* dropped, element by element
QDrop(w) ==
    /\ wpc[w] = "x_idle"
    /\ \E i \in 1..Len(wloc[w].forgot) :
          LET g == wloc[w].forgot[i]
          IN wloc' = [wloc EXCEPT ![w].todrop = <<g>> \o PackGuards(wloc[w], g[1]),
                                  ![w].after = "x_idle",
                                  ![w].op = "drop", ![w].res = "-"]
    /\ wpc' = [wpc EXCEPT ![w] = "drop"]
    /\ UNCHANGED <<data, build, systems, resReg, compReg, readers, writer, borrow,
                   status, parked, cache, ring, token, nthreads, mpc, mi>>

\* the holder of a registry's RwLock takes its write lock: granted when no
\* reader and no writer holds it
XWrite(reg) ==
    /\ ~writer[reg]
    /\ readers[reg] = 0
    /\ writer' = [writer EXCEPT ![reg] = TRUE]
    /\ UNCHANGED <<data, build, systems, resReg, compReg, readers, borrow, status,
                   parked, cache, ring, token, wpc, wloc, nthreads, mpc, mi>>

\* and releases it
XUnwrite(reg) ==
    /\ writer[reg]
    /\ writer' = [writer EXCEPT ![reg] = FALSE]
    /\ UNCHANGED <<data, build, systems, resReg, compReg, readers, borrow, status,
                   parked, cache, ring, token, wpc, wloc, nthreads, mpc, mi>>

\* a world with its types registered, and threads that hold a reference to
\* it and to the executors
InitFetch ==
    /\ build \in {"debug", "release"}
    /\ \E c \in Worlds :
          /\ systems = c.packs
          /\ resReg = c.res
          /\ compReg = c.comp
    /\ readers = [r \in {"res", "comp"} |-> 0]
    /\ writer = [r \in {"res", "comp"} |-> FALSE]
    /\ borrow = [c \in Cells |-> 0]
    /\ status = RUNNING
    /\ parked = 0
    /\ cache = NoExec
    /\ ring = <<>>
    /\ token = [w \in Workers |-> FALSE]
    /\ wpc = [w \in Workers |-> "x_idle"]
    /\ wloc = [w \in Workers |-> IdleLoc]
    /\ nthreads = 0
    /\ mpc = "-"
    /\ mi = 0
    /\ world = [WorldNew EXCEPT !.columns = [t \in compReg |-> StorageNew],
                                !.resources = [t \in resReg |-> 1]]
    /\ call = [op |-> "-", ty |-> "-", id |-> 0, ct |-> <<>>, ret |-> <<>>]

NextFetch ==
    \/ \E w \in Workers :
          \/ XExecute(w)
          \/ ExTryReadResources(w)
          \/ ExTryReadComponents(w)
          \/ ExFetch(w)
          \/ ExUserExecute(w)
          \/ XReturn(w)
          \/ QCall(w)
          \/ QRead(w)
          \/ QFetch(w)
          \/ QDrop(w)
          \/ TryBorrowLoad(w)
          \/ TryBorrowCAS(w)
          \/ DropGuard(w)
    \/ \E reg \in {"res", "comp"} : XWrite(reg) \/ XUnwrite(reg)

SpecFetch == InitFetch /\ [][NextFetch]_vars

-----------------------------------------------------------------------------
(* The storages and the world driven by one owner (&mut access) *)

\* everything but the world's data
threads == <<build, systems, resReg, readers, writer, borrow, status, parked,
             cache, ring, token, wpc, wloc, nthreads, mpc, mi>>

\* the component types the calls draw from
DataTypes == {"Pos", "Vel"}

Pairs == DataTypes \X Values

\* the component tuples a caller can pass: () up to MaxTuple components
Tuples == UNION {[1..n -> Pairs] : n \in 0..MaxTuple}

TypeSeqs == UNION {[1..n -> DataTypes] : n \in 0..MaxTuple}

CallRec(op, ty, id, ct, ret) ==
    [op |-> op, ty |-> ty, id |-> id, ct |-> ct, ret |-> ret]

NoCall == CallRec("-", "-", 0, <<>>, <<>>)

\* no call has panicked
Alive == call.ret # <<"panic">>

\* the debug build keeps the debug_assert of ComponentStorage::len and the
\* unreachable! of pop; no other path of the storages depends on the build
InitData ==
    /\ build = "debug"
    /\ systems = NoSystems
    /\ resReg = {}
    /\ compReg = {}
    /\ readers = [r \in {"res", "comp"} |-> 0]
    /\ writer = [r \in {"res", "comp"} |-> FALSE]
    /\ borrow = [c \in Cells |-> 0]
    /\ status = RUNNING
    /\ parked = 0
    /\ cache = NoExec
    /\ ring = <<>>
    /\ token = [w \in Workers |-> FALSE]
    /\ wpc = [w \in Workers |-> "unspawned"]
    /\ wloc = [w \in Workers |-> IdleLoc]
    /\ nthreads = 0
    /\ mpc = "-"
    /\ mi = 0
    /\ world = WorldNew
    /\ call = NoCall

\* ComponentStorageAllocator::register::<T>()
StRegister ==
    \E t \in DataTypes :
        /\ world' = [world EXCEPT !.columns = Register(@, t)]
        /\ call' = CallRec("register", t, 0, <<>>, <<RegisterRet(world.columns, t)>>)
        /\ compReg' = DOMAIN world'.columns
        /\ UNCHANGED threads

\* ComponentStorage::push(id, v) on a registered column
StPush ==
    \E t \in DOMAIN world.columns, id \in EntityIds, v \in Values :
        /\ world' = [world EXCEPT !.columns[t] = StoragePush(@, id, v)]
        /\ call' = CallRec("push", t, id, <<v>>,
                           StoragePushRet(world.columns[t], id, v))
        /\ UNCHANGED <<threads, compReg>>

\* ComponentStorage::pop
StPop ==
    \E t \in DOMAIN world.columns :
        /\ world' = [world EXCEPT !.columns[t] = StoragePop(@)]
        /\ call' = CallRec("pop", t, 0, <<>>, StoragePopRet(world.columns[t]))
        /\ UNCHANGED <<threads, compReg>>

\* ComponentStorage::remove(index)
StRemove ==
    \E t \in DOMAIN world.columns, index \in 0..MaxEntities :
        /\ world' = [world EXCEPT !.columns[t] = StorageRemove(@, index)]
        /\ call' = CallRec("remove", t, index, <<>>,
                           StorageRemoveRet(world.columns[t], index))
        /\ UNCHANGED <<threads, compReg>>

\* ComponentStorage::remove_by_id(id)
StRemoveById ==
    \E t \in DOMAIN world.columns, id \in EntityIds :
        /\ world' = [world EXCEPT !.columns[t] = StorageRemoveById(@, id)]
        /\ call' = CallRec("remove_by_id", t, id, <<>>,
                           StorageRemoveByIdRet(world.columns[t], id))
        /\ UNCHANGED <<threads, compReg>>

\* ComponentStorageAllocator::remove_components(entity)
StRemoveComponents ==
    \E id \in EntityIds :
        /\ world' = [world EXCEPT !.columns = RemoveComponents(@, id)]
        /\ call' = CallRec("remove_components", "-", id, <<>>, <<>>)
        /\ UNCHANGED <<threads, compReg>>

\* (c0, .., ck).join() over registered columns, iterated to its end
StJoin ==
    /\ \E tys \in TypeSeqs :
          /\ tys # <<>>
          /\ \A k \in 1..Len(tys) : tys[k] \in DOMAIN world.columns
          /\ call' = CallRec("join", "-", 0, tys,
                <<"Yield", JoinAll([k \in 1..Len(tys) |-> world.columns[tys[k]]])>>)
    /\ UNCHANGED <<threads, compReg, world>>

NextStorage ==
    \/ StRegister
    \/ StPush
    \/ StPop
    \/ StRemove
    \/ StRemoveById
    \/ StRemoveComponents
    \/ StJoin

SpecStorage == InitData /\ [][NextStorage]_vars

\* the loop of create_entity_iter: create_entity_impl for each item, until
\* one panics
RECURSIVE CreateEach(_, _)
CreateEach(w, cts) ==
    IF cts = <<>> THEN [world |-> w, panic |-> FALSE]
    ELSE LET r == CreateEntityImpl(w, Head(cts))
         IN IF r.panic THEN r ELSE CreateEach(r.world, Tail(cts))

\* the entities one world is driven to
MaxWorldEntities == 2

WorldIds == 0..(MaxWorldEntities - 1)

\* World::create_entity(components)
WCreateEntity ==
    /\ Alive
    /\ world.next_id < MaxWorldEntities
    /\ \E ct \in Tuples :
          LET r == CreateEntityImpl(world, ct)
          IN IF TupleSetPanics(ct)
             THEN /\ world' = world
                  /\ call' = CallRec("create_entity", "-", 0, <<>>, <<"panic">>)
             ELSE /\ world' = r.world
                  /\ call' = CallRec("create_entity", "-", world.next_id, ct,
                                     IF r.panic THEN <<"panic">> ELSE <<"Ok">>)
    /\ compReg' = DOMAIN world'.columns
    /\ UNCHANGED threads

\* World::create_entity_iter(container): the items are tuples of one type
WCreateEntityIter ==
    /\ Alive
    /\ \E tys \in TypeSeqs, n \in 0..(MaxWorldEntities - world.next_id) :
       \E vals \in [1..n -> [1..Len(tys) -> Values]] :
          LET cts == [i \in 1..n |-> [k \in 1..Len(tys) |-> <<tys[k], vals[i][k]>>]]
              r == CreateEach(world, cts)
              start_index == Len(world.entities)
          IN IF \E i, j \in 1..Len(tys) : i # j /\ tys[i] = tys[j]
             THEN /\ world' = world
                  /\ call' = CallRec("create_entity_iter", "-", 0, <<>>, <<"panic">>)
             ELSE /\ world' = r.world
                  /\ call' = CallRec("create_entity_iter", "-", world.next_id, <<>>,
                                IF r.panic THEN <<"panic">>
                                ELSE <<"Ok", SubSeq(r.world.entities, start_index + 1,
                                                    Len(r.world.entities))>>)
    /\ compReg' = DOMAIN world'.columns
    /\ UNCHANGED threads

\* World::add_components(entity, components), for any Entity value
WAddComponents ==
    /\ Alive
    /\ \E id \in WorldIds, ct \in Tuples :
          LET r == AddComponentsImpl(world, id, ct)
          IN IF TupleSetPanics(ct)
             THEN /\ world' = world
                  /\ call' = CallRec("add_components", "-", id, ct, <<"panic">>)
             ELSE /\ world' = r.world
                  /\ call' = CallRec("add_components", "-", id, ct, r.ret)
    /\ compReg' = DOMAIN world'.columns
    /\ UNCHANGED threads

\* (c0, .., ck).par_join() over columns of the world: the ids of the
\* ParJoinIter, for one order of arrival on the channel; with more sends
\* than the channel has room for, a send blocks and the call never returns
WParJoin ==
    /\ Alive
    /\ \E tys \in TypeSeqs :
          /\ tys # <<>>
          /\ \A k \in 1..Len(tys) : tys[k] \in DOMAIN world.columns
          /\ LET slices == [k \in 1..Len(tys) |-> world.columns[tys[k]].ids]
             IN \E received \in Arrivals(KeepInAll(Flatten(slices), slices)) :
                   call' = CallRec("par_join", "-", 0, tys,
                                   IF SendBlocks(Len(received), slices)
                                   THEN <<"Blocked", <<>>, received>>
                                   ELSE <<"Ids", ParIntersect(received), received>>)
    /\ UNCHANGED <<threads, compReg, world>>

NextWorld ==
    \/ WCreateEntity
    \/ WCreateEntityIter
    \/ WAddComponents
    \/ WParJoin

SpecWorld == InitData /\ [][NextWorld]_vars

-----------------------------------------------------------------------------
(* storage/join.rs: par_intersect on id slices of any content *)

\* longest id slice handed to par_intersect
MaxSlice == 2

\* the ids of a column: no id twice, in any order
IdSlices ==
    {s \in UNION {[1..n -> EntityIds] : n \in 0..MaxSlice} :
        \A i, j \in 1..Len(s) : i # j => s[i] # s[j]}

SliceSeqs == UNION {[1..n -> IdSlices] : n \in 1..MaxTuple}

\* par_intersect(ids), for one order of arrival on the channel
ParIntersectCall ==
    /\ \E slices \in SliceSeqs :
          \E received \in Arrivals(KeepInAll(Flatten(slices), slices)) :
             call' = CallRec("par_intersect", "-", 0, slices,
                             IF SendBlocks(Len(received), slices)
                             THEN <<"Blocked", <<>>, received>>
                             ELSE <<"Ids", ParIntersect(received), received>>)
    /\ UNCHANGED <<threads, compReg, world>>

SpecParIntersect == InitData /\ [][ParIntersectCall]_vars

-----------------------------------------------------------------------------
(* The resource registry of a world driven by one owner *)

\* ResourceStorageAllocator::register::<T>(v)
RsRegister ==
    /\ Alive
    /\ \E t \in ResTypes, v \in Values :
          /\ world' = [world EXCEPT !.resources = ResRegister(@, t, v)]
          /\ call' = CallRec("res_register", t, 0, <<v>>,
                             <<"Ret", ResRegisterRet(world.resources, t)>>)
    /\ resReg' = DOMAIN world'.resources
    /\ UNCHANGED <<build, systems, compReg, readers, writer, borrow, status,
                   parked, cache, ring, token, wpc, wloc, nthreads, mpc, mi>>

\* *allocator.get::<T>().unwrap(), the guard dropped after the read
RsGet ==
    /\ Alive
    /\ \E t \in ResTypes :
          call' = CallRec("res_get", t, 0, <<>>,
                          ResGet(world.resources, t, borrow[t]))
    /\ UNCHANGED <<world, build, systems, resReg, compReg, readers, writer,
                   borrow, status, parked, cache, ring, token, wpc, wloc,
                   nthreads, mpc, mi>>

\* World::add_resources(resources)
WAddResources ==
    /\ Alive
    /\ \E rt \in UNION {[1..n -> ResTypes \X Values] : n \in 0..MaxTuple} :
          /\ world' = [world EXCEPT !.resources = ResStore(@, rt).reg]
          /\ call' = CallRec("add_resources", "-", 0, rt,
                             IF ResStore(world.resources, rt).panic
                             THEN <<"panic">> ELSE <<"Ok">>)
    /\ resReg' = DOMAIN world'.resources
    /\ UNCHANGED <<build, systems, compReg, readers, writer, borrow, status,
                   parked, cache, ring, token, wpc, wloc, nthreads, mpc, mi>>

NextResource ==
    \/ RsRegister
    \/ RsGet
    \/ WAddResources

SpecResource == InitData /\ [][NextResource]_vars

-----------------------------------------------------------------------------
(* Claims about the dispatcher and the executor path *)

\* the worker is inside SystemExecutor::execute
InCall(w) ==
    /\ wloc[w].ex # NoExec
    /\ wloc[w].err = "-"
    /\ wpc[w] \in {"ex_rlock", "ex_clock", "ex_fetch", "tb_load", "tb_cas",
                   "ex_user", "drop", "wdrop"}

\* the worker is inside the system's own execute
Executing(w) == wpc[w] = "ex_user"

\* SystemExecutor::execute has just returned to ThreadShared::execute
Returned(w) == wpc[w] = "push_cas"

StorageCells == ResTypes \cup CompTypes

GuardsOn(c, kind) ==
    {<<w, i>> \in Workers \X (1..Len(Pack("A")) + Len(Pack("B"))) :
        /\ i <= Len(wloc[w].held)
        /\ wloc[w].held[i] = <<c, kind>>}

\* what the live guards on cell c amount to
Accounted(c) ==
    IF GuardsOn(c, "mut") # {} THEN MUTABLY_BORROWED
    ELSE Cardinality(GuardsOn(c, "ref"))

ReadGuards(reg) ==
    Cardinality({w \in Workers : \E i \in 1..Len(wloc[w].locks) :
                                    wloc[w].locks[i] = ReadLock(reg)})

\* the executor call of worker w has returned a RetrievalError
ReturnedErr(w) ==
    /\ wloc[w].err \notin {"-", "Ok"}
    /\ wpc[w] \in {"push_cas", "push_body", "cache_rel", "wdrop"}

\* C11: when an executor's execute returns a RetrievalError the worker
\* pushes the same executor back on the work queue, where it can be popped
\* again, and goes on with its loop: it does not panic on the way back.
C11_RequeuedAfterError ==
    [][\A w \in Workers :
        ReturnedErr(w) =>
            /\ ~wloc'[w].panicking
            /\ wpc'[w] # "panicked"
            /\ (wpc[w] = "push_body" /\ wpc'[w] # "push_body")
                  => /\ \/ cache' = wloc[w].ex
                        \/ \E i \in 1..Len(ring') : ring'[i] = wloc[w].ex
                     /\ wloc'[w].ex = NoExec
      ]_vars

\* C2: with A = WriteResource<Clock> and B = ReadResource<Clock> on 2
\* workers, A's execute and B's execute never overlap, and the holder's
\* borrow of Clock stays recorded while it executes.
C2_NoOverlap ==
    systems = ContentionPacks =>
        /\ ~(\E w1, w2 \in Workers : w1 # w2 /\ Executing(w1) /\ Executing(w2))
        /\ \A w \in Workers :
              (Executing(w) /\ wloc[w].held = <<RefMut("Clock")>>)
                  => borrow["Clock"] = MUTABLY_BORROWED

\* the worker is in the PARKED branch of its loop, or at the loop's top
\* between two passes through it
InParkBranch(w) == wpc[w] \in {"top", "park_inc", "parking", "park_dec"}

HandleAlive == mpc \in {"holding", "h_release"}

\* C3 as stated: when world() returns, parked equals the number of worker
\* threads, every worker is on the PARKED branch, and none pops or executes
\* while the handle is alive.
C3_ParkedEqualsThreads ==
    [][(mpc = "w_borrow" /\ mpc' = "holding")
          => /\ parked' = nthreads
             /\ \A w \in Spawned : wpc'[w] \in {"park_inc", "parking", "park_dec"}]_vars

\* C3 amended: while the handle is alive every worker is in the PARKED
\* branch or back at the top of its loop about to re-enter it, none is inside
\* ThreadShared::execute, none holds a borrow of the world or an executor,
\* the world is recorded as exclusively borrowed, and parked never exceeds
\* the number of threads.
C3_HandleExclusive ==
    HandleAlive =>
        /\ \A w \in Spawned :
              /\ InParkBranch(w)
              /\ ~wloc[w].gw
              /\ wloc[w].ex = NoExec
        /\ status = PARKED
        /\ borrow["world"] = MUTABLY_BORROWED
        /\ parked <= nthreads

\* C3 witness: the handle is alive over spawned workers, one of which woke
\* and decremented parked
C3_Witness ==
    /\ mpc = "holding"
    /\ nthreads = NumWorkers
    /\ parked < nthreads
    /\ \E w \in Spawned : wpc[w] = "park_dec"

\* C4: after the WorldHandle is dropped, and before any further world()
\* call, the workers resume the RUNNING branch: with a non-empty queue some
\* executor is eventually popped and run again.
C4_ResumeAfterDrop ==
    (mpc = "h_release" /\ nthreads > 0)
        ~> (\/ \E w \in Workers : wloc[w].ex # NoExec
            \/ mpc \notin {"h_release", "idle"})

\* C5: shutdown() after dispatch() always terminates: every worker observes
\* SHUTDOWN and returns, and shutdown leaves its join loop.
C5_ShutdownTerminates ==
    (mpc = "sd_store" /\ nthreads > 0) ~> (mpc \in {"done", "panicked"})

\* C8: when SystemExecutor::execute has returned, with Ok or with an error,
\* the call holds no cell guard and no registry read guard any more, and
\* every cell counter and reader count is what the guards still alive
\* account for (the call left the counters as it found them).
C8_ReleasedOnReturn ==
    \A w \in Workers :
        Returned(w) =>
            /\ wloc[w].held = <<>>
            /\ wloc[w].locks = <<>>
            /\ \A c \in StorageCells : borrow[c] = Accounted(c)
            /\ \A reg \in {"res", "comp"} : readers[reg] = ReadGuards(reg)

\* C9: no worker inside an executor call ever waits: it always has a step it
\* can take whatever the other workers hold, and the call ends by returning
\* (never by unwinding a panic).
C9_NeverBlockedAlwaysReturns ==
    \A w \in Workers :
        InCall(w) => /\ ENABLED WorkerStep(w)
                     /\ ~wloc[w].panicking

\* C10: on the fetch path an unregistered type yields NoSuchResourceStorage /
\* NoSuchComponentStorage, a registered type whose cell cannot grant the
\* borrow yields ResourceStorageInUse / ComponentStorageInUse, and in every
\* error case the system's execute is not called.
C10_FetchErrors ==
    [][\A w \in Workers :
        /\ (wpc[w] = "ex_fetch" /\ wpc'[w] # "ex_fetch")
            => LET e == Pack(wloc[w].ex)[wloc[w].idx + 1]
               IN /\ ~Contains(e) => wloc'[w].err = NoSuchStorage(e.reg)
                  /\ (Contains(e) /\ e.mode = "W" /\ borrow[e.ty] # 0)
                        => wloc'[w].err = StorageInUse(e.reg)
        /\ (wpc[w] = "tb_cas" /\ wloc[w].ctx = "fetch" /\ wpc'[w] # "tb_cas"
              /\ borrow[wloc[w].cell] = MUTABLY_BORROWED)
            => wloc'[w].err = StorageInUse(Pack(wloc[w].ex)[wloc[w].idx + 1].reg)
        /\ (InCall(w) /\ wloc'[w].err \notin {"-", "Ok"}) => ~Executing(w)'
      ]_vars

-----------------------------------------------------------------------------
(* Claims about the borrow cell, checked under SpecCell *)

Count(s, kind) == Cardinality({i \in 1..Len(s) : s[i][2] = kind})

\* C1: a live exclusive guard never coexists with any other live guard
\* (shared or exclusive) on the same cell, under any interleaving of
\* try_borrow, try_borrow_mut and guard drops.
C1_ExclusiveGuardIsAlone ==
    \A w1 \in Workers : \A i1 \in 1..Len(wloc[w1].held) :
        wloc[w1].held[i1][2] = "mut" =>
            \A w2 \in Workers : \A i2 \in 1..Len(wloc[w2].held) :
                (wloc[w2].held[i2][1] = wloc[w1].held[i1][1])
                    => (w2 = w1 /\ i2 = i1)

\* C6: try_borrow on a counter n # MAX succeeds and leaves n + 1, dropping
\* the shared guard decrements the counter by exactly one, and try_borrow on
\* a counter that is MAX returns None and leaves the counter at MAX.
C6_TryBorrowContract ==
    [][\A w \in Workers :
        /\ (wpc[w] = "tb_cas" /\ wloc[w].ctx = "cell" /\ wpc'[w] # "tb_cas")
            => LET old == borrow[CellUnderTest]
               IN IF old # MUTABLY_BORROWED
                  THEN wpc'[w] = "t_idle" =>
                          /\ wloc'[w].res = "some"
                          /\ borrow'[CellUnderTest] = old + 1
                  ELSE /\ wpc'[w] = "t_idle"
                       /\ wloc'[w].res = "none"
                       /\ borrow'[CellUnderTest] = MUTABLY_BORROWED
        /\ Count(wloc'[w].held, "ref") < Count(wloc[w].held, "ref")
            => borrow'[CellUnderTest] = (borrow[CellUnderTest] + Modulus - 1) % Modulus
      ]_vars

\* C7: try_borrow_mut succeeds exactly when the counter is 0 and then sets it
\* to MAX; on a nonzero counter it returns None and leaves the counter
\* unchanged; dropping the exclusive guard resets the counter to 0.
C7_TryBorrowMutContract ==
    [][\A w \in Workers :
        /\ (wpc[w] = "tbm" /\ wpc'[w] # "tbm")
            => IF borrow[CellUnderTest] = 0
               THEN /\ wloc'[w].res = "some"
                    /\ borrow'[CellUnderTest] = MUTABLY_BORROWED
                    /\ wloc'[w].held = Append(wloc[w].held, RefMut(CellUnderTest))
               ELSE /\ wloc'[w].res = "none"
                    /\ borrow'[CellUnderTest] = borrow[CellUnderTest]
                    /\ wloc'[w].held = wloc[w].held
        /\ Count(wloc'[w].held, "mut") < Count(wloc[w].held, "mut")
            => borrow'[CellUnderTest] = 0
      ]_vars

\* C7 witness: one thread holds the exclusive guard it was granted on a zero
\* counter and another was refused on the nonzero counter
C7_Witness ==
    \E w1, w2 \in Workers :
        /\ w1 # w2
        /\ wpc[w1] = "t_idle" /\ wpc[w2] = "t_idle"
        /\ wloc[w1].held = <<RefMut(CellUnderTest)>>
        /\ wloc[w1].op = "try_borrow_mut" /\ wloc[w1].res = "some"
        /\ wloc[w2].op = "try_borrow_mut" /\ wloc[w2].res = "none"
        /\ wloc[w2].held = <<>>
        /\ borrow[CellUnderTest] = MUTABLY_BORROWED

\* guards of thread-local list s that came out of a map
CountMapped(s, kind) ==
    Cardinality({i \in 1..Len(s) : Len(s[i]) = 3 /\ s[i][2] = kind})

\* C12: AtomicRef::map and AtomicRefMut::map leave the cell's counter as it
\* is and the mapped guard holds the slot of the guard it came from (same
\* cell, same kind, no guard gained or lost); dropping a mapped guard
\* releases the slot once: a shared one subtracts exactly one, an exclusive
\* one stores 0. So borrow, maps, one drop is +1 +0 -1 (or MAX, MAX, 0).
C12_MapKeepsSlot ==
    [][\A w \in Workers :
        /\ (wloc'[w].op = "map" /\ wloc'[w] # wloc[w])
            => /\ borrow' = borrow
               /\ Len(wloc'[w].held) = Len(wloc[w].held)
               /\ \A i \in 1..Len(wloc[w].held) :
                     /\ wloc'[w].held[i][1] = wloc[w].held[i][1]
                     /\ wloc'[w].held[i][2] = wloc[w].held[i][2]
        /\ CountMapped(wloc'[w].held, "ref") < CountMapped(wloc[w].held, "ref")
            => /\ borrow'[CellUnderTest]
                     = (borrow[CellUnderTest] + Modulus - 1) % Modulus
               /\ Len(wloc'[w].held) = Len(wloc[w].held) - 1
        /\ CountMapped(wloc'[w].held, "mut") < CountMapped(wloc[w].held, "mut")
            => /\ borrow'[CellUnderTest] = 0
               /\ Len(wloc'[w].held) = Len(wloc[w].held) - 1
      ]_vars

\* C12 witness: a thread that took shared guards and mapped them has dropped
\* one and still holds a mapped one, the only live guard; the counter is 1
C12_Witness ==
    \E w \in Workers :
        /\ wpc[w] = "t_idle"
        /\ wloc[w].op = "drop"
        /\ wloc[w].held = <<Mapped(Ref(CellUnderTest))>>
        /\ borrow[CellUnderTest] = 1
        /\ \A v \in Workers \ {w} : wloc[v].held = <<>>

-----------------------------------------------------------------------------
(* Claims about the storages, the registry, the join and the world *)

\* the number of indices of s that hold x
Occurrences(s, x) == Cardinality({i \in 1..Len(s) : s[i] = x})

\* the (id, value) entries of a column, in column order
EntriesOf(st) == [i \in 1..Len(st.ids) |-> <<st.ids[i], st.comps[i]>>]

\* the entries of a column that belong to other entities than id
RECURSIVE WithoutId(_, _)
WithoutId(es, id) ==
    IF es = <<>> THEN <<>>
    ELSE IF Head(es)[1] = id THEN WithoutId(Tail(es), id)
         ELSE <<Head(es)>> \o WithoutId(Tail(es), id)

\* the archetypes of w that list the entity
ArchetypesOf(w, id) ==
    {k \in 1..Len(w.archetypes) : SeqContains(w.archetypes[k].entities, id)}

\* the types of w whose column has an entry for the entity
TypesOf(w, id) ==
    {t \in DOMAIN w.columns : SeqContains(w.columns[t].ids, id)}

\* C13: as long as create_entity, create_entity_iter and add_components have
\* all returned normally, every entity of the world's entity list is listed
\* by exactly one archetype, once, and the signature of that archetype is
\* the set of types whose column has an entry for the entity.
C13_OneArchetypePerEntity ==
    Alive =>
        \A i \in 1..Len(world.entities) :
            LET id == world.entities[i]
            IN \E k \in 1..Len(world.archetypes) :
                  /\ ArchetypesOf(world, id) = {k}
                  /\ Occurrences(world.archetypes[k].entities, id) = 1
                  /\ world.archetypes[k].components = TypesOf(world, id)

\* add_components has just moved entity 0 to the archetype of both types,
\* leaving its old archetype behind, while entity 1 stays in another one
C13_Witness ==
    /\ call.op = "add_components"
    /\ call.id = 0
    /\ call.ret = <<"Ok">>
    /\ world.entities = <<0, 1>>
    /\ TypesOf(world, 0) = DataTypes
    /\ TypesOf(world, 1) = {"Vel"}
    /\ Len(world.archetypes) = 3
    /\ \E k \in 1..3 : world.archetypes[k].entities = <<>>

\* the ids a join has yielded, in the order of the iteration
YieldedIds == [i \in 1..Len(call.ret[2]) |-> call.ret[2][i].id]

\* C14: a join over columns c0..ck yields one tuple per id of the
\* intersection of the columns' ids and nothing else, in strictly ascending
\* id order without repeats, each tuple holding the values the columns store
\* for that id; a join with an empty column yields nothing.
C14_JoinIsSortedIntersection ==
    call.op = "join" =>
        LET tys == call.ct
            out == call.ret[2]
        IN /\ \A i \in 1..(Len(out) - 1) : out[i].id < out[i + 1].id
           /\ {out[i].id : i \in 1..Len(out)} =
                 {id \in EntityIds :
                     \A k \in 1..Len(tys) :
                         SeqContains(world.columns[tys[k]].ids, id)}
           /\ \A i \in 1..Len(out) :
                 /\ Len(out[i].item) = Len(tys)
                 /\ \A k \in 1..Len(tys) :
                       \E j \in 1..Len(world.columns[tys[k]].ids) :
                           /\ world.columns[tys[k]].ids[j] = out[i].id
                           /\ world.columns[tys[k]].comps[j] = out[i].item[k]
           /\ (\E k \in 1..Len(tys) : world.columns[tys[k]].ids = <<>>)
                 => out = <<>>

\* e1 = (P, V), e2 = (P), e3 = (V, P), with e3's velocity stored before e1's:
\* the join of (Velocity, Position) has yielded e1, then e3
C14_Witness ==
    /\ call.op = "join"
    /\ call.ct = <<"Vel", "Pos">>
    /\ DOMAIN world.columns = DataTypes
    /\ world.columns["Pos"].ids = <<0, 1, 2>>
    /\ world.columns["Vel"].ids = <<2, 0>>
    /\ YieldedIds = <<0, 2>>

\* C15: whatever push, pop, remove and remove_by_id have done to a column,
\* no entity id stands at two different indices of its ids.
C15_IdsAreUnique ==
    \A t \in DOMAIN world.columns :
        \A i, j \in 1..Len(world.columns[t].ids) :
            world.columns[t].ids[i] = world.columns[t].ids[j] => i = j

\* a push of a present id into a column that holds every id was rejected
C15_Witness ==
    /\ call.op = "push"
    /\ call.ret[1] = "Err"
    /\ Len(world.columns[call.ty].ids) = MaxEntities
    /\ call.id = world.columns[call.ty].ids[1]

\* C16: push(id, v) on a column that holds id returns Err(v) and leaves the
\* ids and the values as they were; on a column without id it appends
\* (id, v) at the tail and returns Ok.
C16_PushContract ==
    [][call'.op = "push" =>
          LET t == call'.ty
              id == call'.id
              v == call'.ct[1]
              st == world.columns[t]
          IN /\ DOMAIN world'.columns = DOMAIN world.columns
             /\ IF SeqContains(st.ids, id)
                THEN /\ call'.ret = <<"Err", v>>
                     /\ world'.columns[t] = st
                ELSE /\ call'.ret = <<"Ok">>
                     /\ world'.columns[t].ids = Append(st.ids, id)
                     /\ world'.columns[t].comps = Append(st.comps, v)
      ]_vars

\* a push was rejected with a value other than the one the column keeps
C16_Witness ==
    /\ call.op = "push"
    /\ call.ret[1] = "Err"
    /\ call.ret[2] # GetItem(world.columns[call.ty], call.id)
    /\ Len(world.columns[call.ty].ids) = 2

\* C17: after remove_components(e) no column has an entry for e, the
\* entries of the other entities are those of before, with their values and
\* in their order, and a column that had no entry for e is as before.
C17_RemoveComponents ==
    [][call'.op = "remove_components" =>
          /\ DOMAIN world'.columns = DOMAIN world.columns
          /\ \A t \in DOMAIN world.columns :
                /\ ~SeqContains(world'.columns[t].ids, call'.id)
                /\ Len(world'.columns[t].ids) = Len(world'.columns[t].comps)
                /\ EntriesOf(world'.columns[t]) =
                      WithoutId(EntriesOf(world.columns[t]), call'.id)
                /\ ~SeqContains(world.columns[t].ids, call'.id)
                      => world'.columns[t] = world.columns[t]
      ]_vars

\* remove_components(1) has run on two columns that still hold the others,
\* entity 2 before entity 0 in one of them and entity 0 alone in the other
C17_Witness ==
    /\ call.op = "remove_components"
    /\ call.id = 1
    /\ DOMAIN world.columns = DataTypes
    /\ world.columns["Pos"].ids = <<2, 0>>
    /\ world.columns["Pos"].comps = <<1, 2>>
    /\ world.columns["Vel"].ids = <<0>>

\* C18: for an entity whose archetype has the signature {A}, and a type B
\* other than A, add_components(e, (B,)) returns Ok; afterwards e is listed
\* by the archetype of signature {A, B} and by no other, column B has one
\* entry for e, holding the new value, and column A has one entry for e,
\* holding the value it had.
C18_AddSecondComponent ==
    [][\A A, B \in DataTypes :
          (/\ call'.op = "add_components"
           /\ Alive
           /\ A # B
           /\ Len(call'.ct) = 1
           /\ call'.ct[1][1] = B
           /\ ArchetypeOf(world.archetypes, call'.id) # 0
           /\ world.archetypes[ArchetypeOf(world.archetypes, call'.id)].components
                 = {A})
          => /\ call'.ret = <<"Ok">>
             /\ \E k \in 1..Len(world'.archetypes) :
                   /\ ArchetypesOf(world', call'.id) = {k}
                   /\ Occurrences(world'.archetypes[k].entities, call'.id) = 1
                   /\ world'.archetypes[k].components = {A, B}
             /\ Occurrences(world'.columns[B].ids, call'.id) = 1
             /\ GetItem(world'.columns[B], call'.id) = call'.ct[1][2]
             /\ Occurrences(world'.columns[A].ids, call'.id) = 1
             /\ GetItem(world'.columns[A], call'.id)
                   = GetItem(world.columns[A], call'.id)
      ]_vars

\* entity 0, created with a position of 2, has been given a velocity of 1
C18_Witness ==
    /\ call.op = "add_components"
    /\ call.id = 0
    /\ call.ct = <<<<"Vel", 1>>>>
    /\ call.ret = <<"Ok">>
    /\ DOMAIN world.columns = DataTypes
    /\ world.columns["Pos"].ids = <<0>>
    /\ world.columns["Pos"].comps = <<2>>
    /\ world.columns["Vel"].ids = <<0>>
    /\ world.columns["Vel"].comps = <<1>>
    /\ Len(world.archetypes) = 2
    /\ world.archetypes[1] = [entities |-> <<>>, components |-> {"Pos"}]
    /\ world.archetypes[2] = [entities |-> <<0>>, components |-> DataTypes]

\* C19: add_components(e, comps) on an entity that carries a component of
\* one of the types of comps returns Err(comps).
C19_AddCarriedTypeReturnsErr ==
    [][(/\ call'.op = "add_components"
        /\ Alive
        /\ ~TupleSetPanics(call'.ct)
        /\ ArchetypeOf(world.archetypes, call'.id) # 0
        /\ TupleTypes(call'.ct) \cap TypesOf(world, call'.id) # {})
       => call'.ret = <<"Err", call'.ct>>
      ]_vars

\* C20: register on a type without a column returns true and creates an
\* empty column; on a type with a column it returns false and leaves the
\* registry, the column and its entries as they were.
C20_RegisterIdempotent ==
    [][call'.op = "register" =>
          IF call'.ty \in DOMAIN world.columns
          THEN /\ call'.ret = <<FALSE>>
               /\ world'.columns = world.columns
          ELSE /\ call'.ret = <<TRUE>>
               /\ DOMAIN world'.columns = DOMAIN world.columns \cup {call'.ty}
               /\ world'.columns[call'.ty] = StorageNew
               /\ \A u \in DOMAIN world.columns :
                     world'.columns[u] = world.columns[u]
      ]_vars

\* register has returned false on a column that holds entries
C20_Witness ==
    /\ call.op = "register"
    /\ call.ret = <<FALSE>>
    /\ Len(world.columns[call.ty].ids) = 2

-----------------------------------------------------------------------------
(* Claims about the resource registry *)

\* C21: register::<T>(v) on a registry without T returns true, and a get::<T>()
\* that follows it yields a guard whose value is v.
C21_RegisterThenGet ==
    [][/\ (call'.op = "res_register" /\ call'.ty \notin DOMAIN world.resources)
            => /\ call'.ret = <<"Ret", TRUE>>
               /\ ResGet(world'.resources, call'.ty, borrow'[call'.ty])
                     = <<"Some", call'.ct[1]>>
       /\ (/\ call.op = "res_register"
           /\ call.ret = <<"Ret", TRUE>>
           /\ call'.op = "res_get"
           /\ call'.ty = call.ty)
            => call'.ret = <<"Some", call.ct[1]>>
      ]_vars

\* a get has read 2 from the type that was registered last, next to another
\* type that holds 1
C21_Witness ==
    /\ call.op = "res_get"
    /\ call.ty = "Ghost"
    /\ call.ret = <<"Some", 2>>
    /\ DOMAIN world.resources = ResTypes
    /\ world.resources["Clock"] = 1

\* the types a resource tuple names before its position i
TypesBefore(rt, i) == {rt[j][1] : j \in 1..(i - 1)}

\* C22: register::<T>(v2) on a registry that holds T returns false and
\* leaves every value, so that get::<T>() reads what it read before;
\* add_resources with a type that is registered, or named twice, panics, and
\* no value that was registered is replaced.
C22_NoOverwrite ==
    [][/\ (call'.op = "res_register" /\ call'.ty \in DOMAIN world.resources)
            => /\ call'.ret = <<"Ret", FALSE>>
               /\ world'.resources = world.resources
               /\ ResGet(world'.resources, call'.ty, borrow'[call'.ty])
                     = ResGet(world.resources, call'.ty, borrow[call'.ty])
       /\ call'.op = "add_resources"
            => /\ (call'.ret = <<"panic">>) <=>
                     \E i \in 1..Len(call'.ct) :
                         call'.ct[i][1] \in DOMAIN world.resources
                                              \cup TypesBefore(call'.ct, i)
               /\ \A t \in DOMAIN world.resources :
                     /\ t \in DOMAIN world'.resources
                     /\ world'.resources[t] = world.resources[t]
      ]_vars

\* add_resources((Ghost = 2, Clock = 2)) has panicked on a Clock that holds
\* 1, after it registered Ghost
C22_Witness ==
    /\ call.op = "add_resources"
    /\ call.ct = <<<<"Ghost", 2>>, <<"Clock", 2>>>>
    /\ call.ret = <<"panic">>
    /\ DOMAIN world.resources = ResTypes
    /\ world.resources["Clock"] = 1
    /\ world.resources["Ghost"] = 2

-----------------------------------------------------------------------------
(* Claims about entity ids, single components, removals and the join steps *)

\* C23: every call leaves next_id where it was or raises it by one per
\* entity it created; the created entities take the ids from the old
\* next_id upwards and are appended to the entity list, whose older entries
\* stay; so the list is strictly ascending and holds no id twice.
C23_IdsFromCounter ==
    [][LET old == Len(world.entities)
           new == Len(world'.entities)
       IN /\ new >= old
          /\ world'.next_id = world.next_id + (new - old)
          /\ SubSeq(world'.entities, 1, old) = world.entities
          /\ \A i \in (old + 1)..new :
                world'.entities[i] = world.next_id + (i - old - 1)
          /\ \A i, j \in 1..new :
                i < j => world'.entities[i] < world'.entities[j]
      ]_vars

\* one create_entity_iter call has created the second and last entity
C23_Witness ==
    /\ call.op = "create_entity_iter"
    /\ call.id = 1
    /\ call.ret[1] = "Ok"
    /\ Len(call.ret[2]) = 1
    /\ world.entities = <<0, 1>>
    /\ world.next_id = MaxWorldEntities

\* C24: create_entity((v,)) with v of type T returns an entity e and leaves
\* a column for T, created by the call when there was none, that has
\* exactly one entry for e, whose value is v.
C24_CreateThenLookup ==
    [][(call'.op = "create_entity" /\ Len(call'.ct) = 1)
          => /\ call'.ret = <<"Ok">>
             /\ call'.id = world.next_id
             /\ call'.ct[1][1] \in DOMAIN world'.columns
             /\ Occurrences(world'.columns[call'.ct[1][1]].ids, call'.id) = 1
             /\ GetItem(world'.columns[call'.ct[1][1]], call'.id)
                   = call'.ct[1][2]
      ]_vars

\* the second entity was created with a velocity of 2 in a world whose
\* first entity has no component, so the call made the column
C24_Witness ==
    /\ call.op = "create_entity"
    /\ call.id = 1
    /\ call.ct = <<<<"Vel", 2>>>>
    /\ call.ret = <<"Ok">>
    /\ DOMAIN world.columns = {"Vel"}
    /\ world.columns["Vel"] = [ids |-> <<1>>, comps |-> <<2>>]
    /\ world.archetypes[1] = [entities |-> <<0>>, components |-> {}]

\* C25: remove(index) and remove_by_id(id) return the (id, value) pair, or
\* the value, they took out, and the other entries keep their order and
\* their pairing; remove with index >= len and remove_by_id of an absent id
\* return None and leave the column as it was.
C25_ShiftRemove ==
    [][/\ call'.op = "remove" =>
            LET st == world.columns[call'.ty]
                st2 == world'.columns[call'.ty]
                i == call'.id
            IN IF i >= Len(st.ids)
               THEN call'.ret = <<"None">> /\ st2 = st
               ELSE /\ call'.ret = <<"Some", st.ids[i + 1], st.comps[i + 1]>>
                    /\ Len(st2.ids) = Len(st.ids) - 1
                    /\ Len(st2.comps) = Len(st.comps) - 1
                    /\ \A j \in 1..Len(st2.ids) :
                          EntriesOf(st2)[j] =
                              EntriesOf(st)[IF j <= i THEN j ELSE j + 1]
       /\ call'.op = "remove_by_id" =>
            LET st == world.columns[call'.ty]
                st2 == world'.columns[call'.ty]
            IN IF ~SeqContains(st.ids, call'.id)
               THEN call'.ret = <<"None">> /\ st2 = st
               ELSE /\ \E j \in 1..Len(st.ids) :
                          /\ st.ids[j] = call'.id
                          /\ call'.ret = <<"Some", st.comps[j]>>
                    /\ Len(st2.ids) = Len(st2.comps)
                    /\ EntriesOf(st2) = WithoutId(EntriesOf(st), call'.id)
       /\ call'.op \in {"remove", "remove_by_id"} =>
            \A u \in DOMAIN world.columns \ {call'.ty} :
                world'.columns[u] = world.columns[u]
      ]_vars

\* remove(0) has taken (1, 2) from the head of a column of three, whose
\* other entries stand as they stood: entity 2 before entity 0
C25_Witness ==
    /\ call.op = "remove"
    /\ call.id = 0
    /\ call.ret = <<"Some", 1, 2>>
    /\ world.columns[call.ty] = [ids |-> <<2, 0>>, comps |-> <<1, 2>>]

\* C26: every step of a join yields, for its id and for each input column,
\* the value that column stores alongside that id, and every id of the
\* intersection is the id of exactly one step, so no (column, id) slot is
\* handed out twice.
C26_JoinSteps ==
    call.op = "join" =>
        LET tys == call.ct
            out == call.ret[2]
            col(k) == world.columns[tys[k]]
        IN /\ \A i \in 1..Len(out) : \A k \in 1..Len(tys) :
                 {col(k).comps[j] : j \in {n \in 1..Len(col(k).ids) :
                                              col(k).ids[n] = out[i].id}}
                    = {out[i].item[k]}
           /\ \A id \in EntityIds :
                 (\A k \in 1..Len(tys) : SeqContains(col(k).ids, id))
                    => Cardinality({i \in 1..Len(out) : out[i].id = id}) = 1
           /\ \A i, j \in 1..Len(out) : out[i].id = out[j].id => i = j

\* a join of (Position, Velocity) has made two steps over columns that
\* store the two entities in opposite orders and with different values
C26_Witness ==
    /\ call.op = "join"
    /\ call.ct = <<"Pos", "Vel">>
    /\ world.columns["Pos"] = [ids |-> <<1, 0>>, comps |-> <<2, 1>>]
    /\ world.columns["Vel"] = [ids |-> <<0, 1>>, comps |-> <<2, 1>>]
    /\ call.ret[2] = <<[id |-> 0, item |-> <<1, 2>>],
                      [id |-> 1, item |-> <<2, 1>>]>>

\* C28: whatever a call on a column does, rejected pushes and removals that
\* find nothing included, the ids and the values of every column have the
\* same length afterwards, and every (id, value) at one index was such a
\* pair before the call or is the pair the call pushed.
C28_IdsAndValuesAligned ==
    [][\A t \in DOMAIN world'.columns :
          /\ Len(world'.columns[t].ids) = Len(world'.columns[t].comps)
          /\ \A i \in 1..Len(world'.columns[t].ids) :
                \/ /\ t \in DOMAIN world.columns
                   /\ \E j \in 1..Len(world.columns[t].ids) :
                         /\ j <= Len(world.columns[t].comps)
                         /\ world.columns[t].ids[j] = world'.columns[t].ids[i]
                         /\ world.columns[t].comps[j] = world'.columns[t].comps[i]
                \/ /\ call'.op = "push"
                   /\ call'.ty = t
                   /\ world'.columns[t].ids[i] = call'.id
                   /\ world'.columns[t].comps[i] = call'.ct[1]
      ]_vars

\* remove_by_id has found nothing in a column of two entries
C28_Witness ==
    /\ call.op = "remove_by_id"
    /\ call.ret = <<"None">>
    /\ world.columns[call.ty] = [ids |-> <<2, 0>>, comps |-> <<2, 1>>]

\* C27: whatever the order in which the ids arrive on the channel,
\* par_intersect returns the vector that intersect returns for the same
\* slices.
C27_ParIntersectIsIntersect ==
    call.op = "par_join" =>
        call.ret[2] =
            Intersect([k \in 1..Len(call.ct) |-> world.columns[call.ct[k]].ids])

\* both columns hold both entities, entity 1 first in one of them; the ids
\* arrived as 1, 0, 0, 1 and par_join holds 0, 1
C27_Witness ==
    /\ call.op = "par_join"
    /\ call.ct = <<"Pos", "Vel">>
    /\ world.columns["Pos"].ids = <<1, 0>>
    /\ world.columns["Vel"].ids = <<0, 1>>
    /\ call.ret[3] = <<1, 0, 0, 1>>
    /\ call.ret[2] = <<0, 1>>

-----------------------------------------------------------------------------
(* Claims about shutdown without workers and about the executors' places *)

\* C29: a shutdown of a dispatcher that spawned no thread waits on nothing:
\* each of its steps can be taken at once, there is no thread to join,
\* whatever the cache and the ring hold, and it ends by returning the world.
C29_ShutdownWithoutWorkers ==
    /\ [](nthreads = 0 =>
            /\ mpc = "sd_store" => ENABLED ShutdownStore
            /\ mpc = "sd_join" => (ENABLED ShutdownReturn /\ ~ENABLED ShutdownJoin))
    /\ [][(nthreads = 0 /\ mpc = "sd_join" /\ mpc' # mpc) => mpc' = "done"]_vars

\* shutdown has returned the world of a dispatcher without threads whose
\* queue holds the two systems and the added executor
C29_Witness ==
    /\ mpc = "done"
    /\ nthreads = 0
    /\ cache = Added
    /\ ring = <<"A", "B">>

\* worker w has executor e: it popped it and has not pushed it back, and
\* its stack has not been unwound
Holds(w, e) ==
    /\ wloc[w].ex = e
    /\ ~wloc[w].panicking
    /\ wpc[w] # "panicked"

\* the number of places executor e is in
Places(e) ==
    (IF cache = e THEN 1 ELSE 0)
    + Cardinality({i \in 1..Len(ring) : ring[i] = e})
    + Cardinality({w \in Workers : Holds(w, e)})

\* C30: every executor the dispatcher was built with is in exactly one
\* place: the cache, the ring, or one worker between its pop and its push;
\* an added executor is in at most one; no system executes on two workers at
\* once.
C30_ExecutorInOnePlace ==
    /\ \A e \in Sys : Places(e) = 1
    /\ Places(Added) <= 1
    /\ \A w1, w2 \in Workers :
          (w1 # w2 /\ Executing(w1) /\ Executing(w2))
             => wloc[w1].ex # wloc[w2].ex

-----------------------------------------------------------------------------
(* Claims about the work queue under fair scheduling *)

\* executor e waits in the ring
InRing(e) == \E i \in 1..Len(ring) : ring[i] = e

\* no thread has panicked
NoPanic ==
    /\ mpc # "panicked"
    /\ \A w \in Workers : wpc[w] # "panicked" /\ ~wloc[w].panicking

\* C31: while status stays RUNNING, with workers scheduled fairly (and no
\* thread lost to a panic), an executor that waits in the ring is
\* eventually popped by a worker: none waits there for ever.
C31_NoStarvation ==
    \A e \in Sys \cup {Added} :
        ([](status = RUNNING) /\ []NoPanic /\ <>(nthreads > 0))
            => [](InRing(e) => <>(\E w \in Workers : Holds(w, e)))

\* C32: a worker's push of the executor it just ran always succeeds: the
\* executor goes to the cache or to the ring, whatever the other workers
\* and the owner's add_executor calls do (the ring never turns it away).
C32_RePushSucceeds ==
    [][\A w \in Workers :
          (wpc[w] = "push_body" /\ wpc'[w] # "push_body")
              => /\ wloc'[w].ex = NoExec
                 /\ \/ cache' = wloc[w].ex
                    \/ Len(ring') = Len(ring) + 1
      ]_vars

-----------------------------------------------------------------------------
(* Claims about add_components on an entity of no archetype *)

\* C39 as stated: add_components(e, comps) for an entity e that is a member
\* of no archetype returns Err(comps) and leaves the world unchanged,
\* whatever comps is.
C39_UnknownEntityReturnsErr ==
    [][(/\ call'.op = "add_components"
        /\ ArchetypeOf(world.archetypes, call'.id) = 0)
       => /\ call'.ret = <<"Err", call'.ct>>
          /\ world' = world
      ]_vars

\* C39 amended: add_components(e, comps) with comps of pairwise distinct
\* types, for an entity e that is a member of no archetype, returns
\* Err(comps) with the components handed back and leaves the archetype
\* table, every column, the entity list and next_id unchanged.
C39_UnknownEntityDistinctTypes ==
    [][(/\ call'.op = "add_components"
        /\ ~TupleSetPanics(call'.ct)
        /\ ArchetypeOf(world.archetypes, call'.id) = 0)
       => /\ call'.ret = <<"Err", call'.ct>>
          /\ world' = world
          /\ compReg' = compReg
      ]_vars

\* add_components of two components was refused for an id no archetype
\* holds, in a world that holds another entity
C39_Witness ==
    /\ call.op = "add_components"
    /\ Len(call.ct) = 2
    /\ call.ret = <<"Err", call.ct>>
    /\ ArchetypeOf(world.archetypes, call.id) = 0
    /\ world.entities # <<>>
    /\ world.next_id > 0

-----------------------------------------------------------------------------
(* Claims about the channel of par_intersect *)

\* C40: in par_intersect no send on the bounded channel blocks: the ids sent
\* are at most as many as the channel's capacity, the sum of the slice
\* lengths, and the call returns its ids for every input, the all-empty
\* ones (capacity 0, nothing sent) included.
C40_NoSendBlocks ==
    call.op = "par_intersect" =>
        /\ call.ret[1] = "Ids"
        /\ Len(call.ret[3]) <= ChannelCapacity(call.ct)
        /\ ChannelCapacity(call.ct) = 0 => call.ret = <<"Ids", <<>>, <<>>>>

\* a par_intersect of two slices whose sends filled the channel to its
\* capacity
C40_Witness ==
    /\ call.op = "par_intersect"
    /\ Len(call.ct) = 2
    /\ call.ret[1] = "Ids"
    /\ Len(call.ret[3]) = ChannelCapacity(call.ct)
    /\ Len(call.ret[3]) = 2 * MaxSlice

-----------------------------------------------------------------------------
(* Claims about SystemQueue::push and SystemQueue::pop *)

\* what push(e) does to the queue when its try_borrow_mut of the cache
\* returned guard
PushedAs(guard, e) ==
    IF guard /\ cache = NoExec
    THEN cache' = e /\ ring' = ring
    ELSE IF Len(ring) < Capacity
    THEN ring' = Append(ring, e) /\ cache' = cache
    ELSE ring' = ring /\ cache' = cache

\* C35: push stores the executor in the cache exactly when its
\* try_borrow_mut finds the cache not borrowed and the cache is empty, and
\* otherwise pushes it on the ring, or hands it back when the ring is full;
\* pop takes the cached executor exactly when its try_borrow_mut finds the
\* cache not borrowed and the cache is occupied, and otherwise takes the
\* head of the ring, or nothing when the ring is empty.  The cache does not
\* change under the guard of another thread.
C35_PushPopContract ==
    [][/\ \A w \in Workers :
            /\ (wpc[w] \in {"push_cas", "pop_cas"} /\ wpc'[w] # wpc[w])
                  => wloc'[w].gc = (borrow["cache"] = 0)
            /\ (wloc[w].gc /\ wpc'[w] = wpc[w]) => cache' = cache
            /\ (wpc[w] = "push_body" /\ wpc'[w] # "push_body")
                  => /\ PushedAs(wloc[w].gc, wloc[w].ex)
                     /\ (cache' = cache /\ ring' = ring) <=> wloc'[w].ex = wloc[w].ex
            /\ (wpc[w] = "pop_body" /\ wpc'[w] # "pop_body")
                  => IF wloc[w].gc /\ cache # NoExec
                     THEN wloc'[w].ex = cache /\ cache' = NoExec /\ ring' = ring
                     ELSE IF ring # <<>>
                     THEN wloc'[w].ex = Head(ring) /\ ring' = Tail(ring)
                          /\ cache' = cache
                     ELSE wloc'[w].ex = NoExec /\ ring' = ring /\ cache' = cache
       /\ (mpc = "idle" /\ mpc' \in {"ae_put_g", "ae_put_n"})
             => (mpc' = "ae_put_g") = (borrow["cache"] = 0)
       /\ (mpc \in {"ae_put_g", "ae_put_n"} /\ mpc' # mpc)
             => PushedAs(mpc = "ae_put_g", Added)
       /\ (mpc \in {"ae_put_g", "ae_rel"} /\ mpc' \in {"ae_put_g", "ae_rel"}
             /\ mpc' = mpc) => cache' = cache
      ]_vars

\* a worker's push found the cache borrowed by the other worker, which is
\* inside pop with an empty cache: the executor goes to the ring although
\* the cache is empty
C35_Witness ==
    \E w1, w2 \in Workers :
        /\ wpc[w1] = "push_body"
        /\ ~wloc[w1].gc
        /\ wpc[w2] = "pop_body"
        /\ wloc[w2].gc
        /\ cache = NoExec
        /\ ring # <<>>

-----------------------------------------------------------------------------
(* Claims about where the worker loop reads status *)

\* C36: a worker acts on status only at the top of its loop: a change of
\* status leaves a worker that holds an executor where it is, the worker
\* runs the executor's call to its end and pushes the executor back before
\* it parks or returns, and a worker that read SHUTDOWN has returned for
\* good, holding nothing.
C36_StatusReadAtTop ==
    [][\A w \in Workers :
          /\ (wpc'[w] \in {"park_inc", "returned"} /\ wpc'[w] # wpc[w])
                => wpc[w] = "top"
          /\ (wloc[w].ex # NoExec /\ status' # status)
                => (wpc'[w] = wpc[w] /\ wloc'[w] = wloc[w])
          /\ (wloc[w].ex # NoExec /\ ~wloc[w].panicking)
                => /\ ~wloc'[w].panicking
                   /\ wpc'[w] # "panicked"
                   /\ wloc'[w].ex = NoExec
                         => \/ cache' = wloc[w].ex
                            \/ ring' = Append(ring, wloc[w].ex)
          /\ wpc[w] = "returned"
                => (wpc'[w] = "returned" /\ wloc'[w] = IdleLoc)
      ]_vars

-----------------------------------------------------------------------------
(* Claims about the order in which SystemExecutor::execute acquires *)

\* the step of the call of worker w that leaves pc
Leaves(w, pc) == wpc[w] = pc /\ wpc'[w] # pc

-----------------------------------------------------------------------------
(* Claims about the read locks of Query::fetch* *)

\* the threads that own a read lock of registry reg, through a guard or
\* through the QueryResources / QueryComponents whose guard was forgotten
ReadLockOwners(reg) ==
    {w \in Workers :
        \/ \E i \in 1..Len(wloc[w].locks) : wloc[w].locks[i] = ReadLock(reg)
        \/ \E i \in 1..Len(wloc[w].forgot) : wloc[w].forgot[i] = ReadLock(reg)}

\* C37: each registry's reader count is the number of read locks that a
\* running call, or a QueryResources / QueryComponents value not yet
\* dropped, still owns: a fetch that does not yield its value has released
\* the read lock it took, and a value releases it once, when it is dropped.
C37_ReaderCountBalanced ==
    \A reg \in {"res", "comp"} : readers[reg] = Cardinality(ReadLockOwners(reg))

-----------------------------------------------------------------------------
(* Claims about the order of releasing cell guards and registry read locks *)

\* thread w releases its read lock of registry reg in this step
ReleasesReadLock(w, reg) ==
    /\ wpc[w] = "drop"
    /\ wloc[w].todrop # <<>>
    /\ Head(wloc[w].todrop) = ReadLock(reg)
    /\ readers'[reg] = readers[reg] - 1

\* C38: when a thread releases the read lock of a registry, it holds no cell
\* guard obtained through that registry any more: the guards of the pack
\* were released before the lock, on the executor path and on the Query
\* path.
C38_GuardsReleasedBeforeLock ==
    [][\A w \in Workers : \A reg \in {"res", "comp"} :
          ReleasesReadLock(w, reg) => PackGuards(wloc'[w], reg) = <<>>
      ]_vars

====
